---- MODULE Spec2Model ----
(***************************************************************************)
(* Model of the MIME content / header decoding engine of mailhog-node:     *)
(* the quoted-printable codec (libqp encode, decode, wrap), the transfer   *)
(* decoder, the content part selection and the memoized message getters.   *)
(*                                                                         *)
(* JavaScript strings are sequences of character codes, Buffers are        *)
(* sequences of bytes (0..255).  Sequences are 1-based; the source's       *)
(* 0-based positions (pos) are kept 0-based and shifted where used.        *)
(***************************************************************************)
EXTENDS Integers, Sequences, FiniteSets, TLC

\* ----------------------------------------------------------------------
\* Character codes used by the source
\* ----------------------------------------------------------------------
TAB == 9
LF == 10
CR == 13
SP == 32
EQ == 61
LS == 8232
PS == 8233

\* Bounds of the model
MaxBufLen == 4
MaxStrLen == 6
MaxRawL == 5
MaxL == 6
MaxTextLen == 4
MaxTextL == 13
MaxExtraIter == 2
MaxBodyLen == 2
MaxParts == 2
MaxReads == 3
MaxEncodeLen == 3
MaxLineLength == 6
MaxWords == 3
MaxShortLen == 5
MaxShortL == 4
MaxRangeLen == 3
MaxQpLen == 4
MaxUtf8Chars == 5
MaxUtf8L == 26

Min(a, b) == IF a < b THEN a ELSE b
Max(a, b) == IF a > b THEN a ELSE b

\* ----------------------------------------------------------------------
\* JavaScript string primitives
\* ----------------------------------------------------------------------
\* String.prototype.substr(from, n) for from >= 0 (0-based from)
substr(s, from, n) ==
  IF from >= Len(s) \/ n <= 0 THEN <<>>
  ELSE SubSeq(s, from + 1, Min(Len(s), from + n))

\* String.prototype.substr(-n): the last n characters; substr(-0) is
\* substr(0), the whole string
substrLast(s, n) ==
  IF n = 0 \/ n >= Len(s) THEN s
  ELSE SubSeq(s, Len(s) - n + 1, Len(s))

\* [\da-fA-F] (or [\da-f] with the i flag)
isHex(c) == (c >= 48 /\ c <= 57) \/ (c >= 65 /\ c <= 70) \/ (c >= 97 /\ c <= 102)

\* value of one hexadecimal digit (parseInt(.., 16))
hexVal(c) ==
  IF c >= 48 /\ c <= 57 THEN c - 48
  ELSE IF c >= 65 /\ c <= 70 THEN c - 55
  ELSE c - 87

\* one digit of Number.prototype.toString(16).toUpperCase()
hexChar(n) == IF n < 10 THEN 48 + n ELSE 55 + n

\* a line terminator of the regular expression engine: what '.' does not
\* match and where '$' matches under the m flag
isLineTerminator(c) == c = LF \/ c = CR \/ c = LS \/ c = PS

\* ----------------------------------------------------------------------
\* libqp.encode
\* ----------------------------------------------------------------------
\* mutant: one range from SPACE to '~', '=' included
rangesWithEquals == << <<9>>, <<10>>, <<13>>, <<32, 126>> >>

\* the ranges of the characters that need no encoding
ranges == << <<9>>, <<10>>, <<13>>, <<32, 60>>, <<62, 126>> >>

checkRanges(nr, rs) ==
  \E i \in 1..Len(rs) :
    \/ Len(rs[i]) = 1 /\ nr = rs[i][1]
    \/ Len(rs[i]) = 2 /\ nr >= rs[i][1] /\ nr <= rs[i][2]

\* mutant: whitespace at the end of a line is not escaped
qpKeepsLiteralNoWs(buf, i) == checkRanges(buf[i], ranges)

\* the condition of the if in encode's loop (i is 1-based here)
qpKeepsLiteral(buf, i) ==
  /\ checkRanges(buf[i], ranges)
  /\ ~ ( (buf[i] = SP \/ buf[i] = TAB)
         /\ (i = Len(buf) \/ buf[i + 1] = LF \/ buf[i + 1] = CR) )

qpEscape(ord) == << EQ, hexChar(ord \div 16), hexChar(ord % 16) >>

RECURSIVE qpEncodeFrom(_, _)
qpEncodeFrom(buf, i) ==
  IF i > Len(buf) THEN <<>>
  ELSE (IF qpKeepsLiteral(buf, i) THEN << buf[i] >> ELSE qpEscape(buf[i]))
       \o qpEncodeFrom(buf, i + 1)

qpEncode(buf) == qpEncodeFrom(buf, 1)

\* ----------------------------------------------------------------------
\* libqp.decode
\* ----------------------------------------------------------------------
\* first position >= i whose character is not TAB or SPACE (Len+1 if none)
RECURSIVE skipWs(_, _)
skipWs(s, i) ==
  IF i > Len(s) THEN i
  ELSE IF s[i] = TAB \/ s[i] = SP THEN skipWs(s, i + 1)
  ELSE i

\* mutant: without the flag m only the run that reaches the end of the input
\* is removed
RECURSIVE stripTrailingWsAtEnd(_, _)
stripTrailingWsAtEnd(s, i) ==
  IF i > Len(s) THEN <<>>
  ELSE IF skipWs(s, i) > Len(s) THEN <<>>
  ELSE << s[i] >> \o stripTrailingWsAtEnd(s, i + 1)

\* .replace(/[\t ]+$/gm, ''): a run of TAB/SPACE that reaches the end of the
\* input or a line terminator is removed
RECURSIVE stripTrailingWs(_, _)
stripTrailingWs(s, i) ==
  IF i > Len(s) THEN <<>>
  ELSE IF s[i] = TAB \/ s[i] = SP
       THEN LET j == skipWs(s, i)
            IN  IF j > Len(s) \/ isLineTerminator(s[j])
                THEN stripTrailingWs(s, j)
                ELSE SubSeq(s, i, j - 1) \o stripTrailingWs(s, j)
       ELSE << s[i] >> \o stripTrailingWs(s, i + 1)

\* length of the match of /\=(?:\r?\n|$)/ at position i, 0 if none
softBreakAt(s, i) ==
  IF s[i] # EQ THEN 0
  ELSE IF i + 2 <= Len(s) /\ s[i + 1] = CR /\ s[i + 2] = LF THEN 3
  ELSE IF i + 1 <= Len(s) /\ s[i + 1] = LF THEN 2
  ELSE IF i = Len(s) THEN 1
  ELSE 0

\* .replace(/\=(?:\r?\n|$)/g, '')
RECURSIVE removeSoftBreaks(_, _)
removeSoftBreaks(s, i) ==
  IF i > Len(s) THEN <<>>
  ELSE IF softBreakAt(s, i) > 0 THEN removeSoftBreaks(s, i + softBreakAt(s, i))
  ELSE << s[i] >> \o removeSoftBreaks(s, i + 1)

\* the string the decode loop runs over
qpClean(input) == removeSoftBreaks(stripTrailingWs(input, 1), 1)

\* mutant: the digits a-f in small letters are not taken
escapeAtUpperOnly(s, i) ==
  /\ s[i] = EQ /\ i + 2 <= Len(s)
  /\ s[i + 1] < 97 /\ isHex(s[i + 1]) /\ s[i + 2] < 97 /\ isHex(s[i + 2])

\* /\=[\da-fA-F]{2}/ matches at position i
escapeAt(s, i) ==
  s[i] = EQ /\ i + 2 <= Len(s) /\ isHex(s[i + 1]) /\ isHex(s[i + 2])

\* (str.match(/\=[\da-fA-F]{2}/g) || []).length
RECURSIVE countEscapes(_, _)
countEscapes(s, i) ==
  IF i > Len(s) THEN 0
  ELSE IF escapeAt(s, i) THEN 1 + countEscapes(s, i + 3)
  ELSE countEscapes(s, i + 1)

\* the bytes the loop of decode writes, in order
RECURSIVE qpDecodeLoop(_, _)
qpDecodeLoop(s, i) ==
  IF i > Len(s) THEN <<>>
  ELSE IF escapeAt(s, i)
       THEN << hexVal(s[i + 1]) * 16 + hexVal(s[i + 2]) >> \o qpDecodeLoop(s, i + 3)
       ELSE << s[i] % 256 >> \o qpDecodeLoop(s, i + 1)

\* Buffer.alloc(bufferLength) filled by the loop: writes past the end of the
\* buffer are dropped, bytes never written stay 0
qpDecode(input) ==
  LET str == qpClean(input)
      bufferLength == Len(str) - countEscapes(str, 1) * 2
      written == qpDecodeLoop(str, 1)
  IN  [ k \in 1..bufferLength |-> IF k <= Len(written) THEN written[k] ELSE 0 ]

\* ----------------------------------------------------------------------
\* libqp.wrap: one iteration of the while loop
\* ----------------------------------------------------------------------
\* index (1-based) of the first CR LF in line, 0 if there is none
RECURSIVE indexOfCRLF(_, _)
indexOfCRLF(line, i) ==
  IF i + 1 > Len(line) THEN 0
  ELSE IF line[i] = CR /\ line[i + 1] = LF THEN i
  ELSE indexOfCRLF(line, i + 1)

\* length of the match of /\n.*?$/ in t, 0 if none: an LF after which no
\* line terminator follows up to the end
newlineMatchLen(t) ==
  LET I == { i \in 1..Len(t) :
               t[i] = LF /\ \A j \in (i + 1)..Len(t) : ~ isLineTerminator(t[j]) }
  IN  IF I = {} THEN 0 ELSE Len(t) - (CHOOSE i \in I : \A k \in I : i <= k) + 1

\* mutant: a line is not cut at a SPACE
isBreakCharNoSpace(c) == c \in {TAB, 46, 44, 33, 63}

\* [ \t\.,!\?]
isBreakChar(c) == c \in {SP, TAB, 46, 44, 33, 63}

\* length of the match of /[ \t\.,!\?][^ \t\.,!\?]*$/ in t, 0 if none
spaceMatchLen(t) ==
  LET I == { i \in 1..Len(t) : isBreakChar(t[i]) }
  IN  IF I = {} THEN 0 ELSE Len(t) - (CHOOSE i \in I : \A k \in I : i >= k) + 1

\* /\=[\da-f]{2}$/i
endsWithEscape(line) ==
  LET n == Len(line)
  IN  n >= 3 /\ line[n - 2] = EQ /\ isHex(line[n - 1]) /\ isHex(line[n])

\* length of the match of /\=[\da-f]{0,1}$/i, 0 if none
incompleteLen(line) ==
  LET n == Len(line)
  IN  IF n >= 2 /\ line[n - 1] = EQ /\ isHex(line[n]) THEN 2
      ELSE IF n >= 1 /\ line[n] = EQ THEN 1
      ELSE 0

\* /\=[\da-f]{0,2}$/i
endsWithSequence(line) == incompleteLen(line) > 0 \/ endsWithEscape(line)

\* mutant: lines of one to five escapes are exempt from the back off
onlyEscapesUpToFive(line) ==
  /\ Len(line) \in {3, 6, 9, 12, 15}
  /\ \A k \in 0..((Len(line) \div 3) - 1) :
       /\ line[3 * k + 1] = EQ
       /\ line[3 * k + 2] \in (48..57) \cup (65..70) \cup (97..102)
       /\ line[3 * k + 3] \in (48..57) \cup (65..70) \cup (97..102)

\* /^(?:=[\da-f]{2}){1,4}$/i
onlyEscapes(line) ==
  /\ Len(line) \in {3, 6, 9, 12}
  /\ \A k \in 0..((Len(line) \div 3) - 1) :
       line[3 * k + 1] = EQ /\ isHex(line[3 * k + 2]) /\ isHex(line[3 * k + 3])

\* parseInt(match[0].substr(1, 2), 16) of the escape that ends line
lastCode(line) == hexVal(line[Len(line) - 1]) * 16 + hexVal(line[Len(line)])

\* line.substr(0, line.length - n)
dropLast(line, n) == SubSeq(line, 1, Max(0, Len(line) - n))

\* mutant: no back off over utf-8 continuation bytes
utf8BackOffNone(line, rest) == line

\* the while loop "ensure that utf-8 sequences are not split";
\* rest is len - pos
RECURSIVE utf8BackOff(_, _)
utf8BackOff(line, rest) ==
  IF /\ Len(line) > 3
     /\ Len(line) < rest
     /\ ~ onlyEscapes(line)
     /\ endsWithEscape(line)
  THEN IF lastCode(line) < 128 THEN line
       ELSE IF lastCode(line) >= 192 THEN dropLast(line, 3)
       ELSE utf8BackOff(dropLast(line, 3), rest)
  ELSE line

\* mutant: an incomplete sequence at the end of the line is left there
escapeAwareLineKeepsIncomplete(line, rest) ==
  IF endsWithSequence(line) THEN utf8BackOff(line, rest) ELSE line

\* the else branch: push incomplete encoding sequences to the next line and
\* back off over utf-8 continuation bytes
escapeAwareLine(line, rest) ==
  IF endsWithSequence(line)
  THEN utf8BackOff(dropLast(line, incompleteLen(line)), rest)
  ELSE line

\* mutant: the read position advances by the untrimmed line
finishLineAdvanceFirst(line, rest, maxLength) ==
  IF Len(line) < rest /\ (Len(line) = 0 \/ line[Len(line)] # LF)
  THEN [ line |-> IF Len(line) = maxLength /\ endsWithEscape(line)
                  THEN dropLast(line, 3)
                  ELSE IF Len(line) = maxLength THEN dropLast(line, 1)
                  ELSE line,
         adv  |-> Len(line),
         soft |-> TRUE ]
  ELSE [ line |-> line, adv |-> Len(line), soft |-> FALSE ]

\* mutant: a full line that does not end in an escape keeps its last
\* character
finishLineTrimsEscapeOnly(line, rest, maxLength) ==
  IF Len(line) < rest /\ (Len(line) = 0 \/ line[Len(line)] # LF)
  THEN LET trimmed == IF Len(line) = maxLength /\ endsWithEscape(line)
                      THEN dropLast(line, 3)
                      ELSE line
       IN  [ line |-> trimmed, adv |-> Len(trimmed), soft |-> TRUE ]
  ELSE [ line |-> line, adv |-> Len(line), soft |-> FALSE ]

\* mutant: a full line is not trimmed before the soft line break
finishLineNoTrim(line, rest, maxLength) ==
  IF Len(line) < rest /\ (Len(line) = 0 \/ line[Len(line)] # LF)
  THEN [ line |-> line, adv |-> Len(line), soft |-> TRUE ]
  ELSE [ line |-> line, adv |-> Len(line), soft |-> FALSE ]

\* the tail of the iteration: trim a full line, advance pos by the length of
\* the line and decide on the soft line break
finishLine(line, rest, maxLength) ==
  IF Len(line) < rest /\ (Len(line) = 0 \/ line[Len(line)] # LF)
  THEN LET trimmed == IF Len(line) = maxLength /\ endsWithEscape(line)
                      THEN dropLast(line, 3)
                      ELSE IF Len(line) = maxLength THEN dropLast(line, 1)
                      ELSE line
       IN  [ line |-> trimmed, adv |-> Len(trimmed), soft |-> TRUE ]
  ELSE [ line |-> line, adv |-> Len(line), soft |-> FALSE ]

\* mutant: a line that is passed on takes the character after it along
passLineSkipping(line) == [ line |-> line, adv |-> Len(line) + 1, soft |-> FALSE ]

\* a branch that ends in "result += line; pos += line.length; continue"
passLine(line) == [ line |-> line, adv |-> Len(line), soft |-> FALSE ]

\* one iteration of the while loop of wrap at position pos (0-based): the
\* piece of the input it emits, the advance of pos and whether a soft line
\* break follows the piece
wrapLine(input, pos, maxLength) ==
  LET lineMargin == maxLength \div 3
      rest == Len(input) - pos
      line == substr(input, pos, maxLength)
      crlf == indexOfCRLF(line, 1)
      tail == substrLast(line, lineMargin)
  IN  IF crlf > 0
      THEN passLine(SubSeq(line, 1, crlf + 1))
      ELSE IF line[Len(line)] = LF
      THEN passLine(line)
      ELSE IF newlineMatchLen(tail) > 0
      THEN passLine(dropLast(line, newlineMatchLen(tail) - 1))
      ELSE IF Len(line) > maxLength - lineMargin /\ spaceMatchLen(tail) > 0
      THEN finishLine(dropLast(line, spaceMatchLen(tail) - 1), rest, maxLength)
      ELSE finishLine(escapeAwareLine(line, rest), rest, maxLength)

\* mutant: a line ends in a hard line break
HardBreak == << CR, LF >>

\* the soft line break that ends a line of wrap
SoftBreak == << EQ, CR, LF >>

\* ----------------------------------------------------------------------
\* Buffer.from(string): the UTF-8 bytes of a string (no surrogates occur)
\* ----------------------------------------------------------------------
utf8Bytes(c) ==
  IF c < 128 THEN << c >>
  ELSE IF c < 2048 THEN << 192 + (c \div 64), 128 + (c % 64) >>
  ELSE << 224 + (c \div 4096), 128 + ((c \div 64) % 64), 128 + (c % 64) >>

RECURSIVE BufferFromString(_)
BufferFromString(s) ==
  IF s = <<>> THEN <<>> ELSE utf8Bytes(Head(s)) \o BufferFromString(Tail(s))

\* ----------------------------------------------------------------------
\* JavaScript values of the transfer decoder (src/unnamed/part_004)
\* ----------------------------------------------------------------------
\* the value undefined, and the outcome of a call that throws; neither is a
\* string (no string holds a negative character code)
Undefined == << -1 >>
Throws == << -2 >>

\* string literals of the source, as character codes
S_undefined == << 117, 110, 100, 101, 102, 105, 110, 101, 100 >>   \* "undefined"
S_utf8 == << 117, 116, 102, 56 >>   \* "utf8"
S_utf_8 == << 117, 116, 102, 45, 56 >>   \* "utf-8"
S_7bit == << 55, 98, 105, 116 >>   \* "7bit"
S_8bit == << 56, 98, 105, 116 >>   \* "8bit"
S_binary == << 98, 105, 110, 97, 114, 121 >>   \* "binary"
S_x_ == << 120, 45 >>   \* "x-"
S_quoted_printable == << 113, 117, 111, 116, 101, 100, 45, 112, 114, 105, 110, 116, 97, 98, 108, 101 >>   \* "quoted-printable"
S_base64 == << 98, 97, 115, 101, 54, 52 >>   \* "base64"
S_base64url == << 98, 97, 115, 101, 54, 52, 117, 114, 108 >>   \* "base64url"
S_hex == << 104, 101, 120 >>   \* "hex"
S_latin1 == << 108, 97, 116, 105, 110, 49 >>   \* "latin1"
S_ascii == << 97, 115, 99, 105, 105 >>   \* "ascii"
S_ucs2 == << 117, 99, 115, 50 >>   \* "ucs2"
S_ucs_2 == << 117, 99, 115, 45, 50 >>   \* "ucs-2"
S_utf16le == << 117, 116, 102, 49, 54, 108, 101 >>   \* "utf16le"
S_utf_16le == << 117, 116, 102, 45, 49, 54, 108, 101 >>   \* "utf-16le"
S_iso88591 == << 105, 115, 111, 56, 56, 53, 57, 49 >>   \* "iso88591"

\* !x for x a string or undefined
falsy(x) == x = Undefined \/ x = <<>>

\* String(x), as RegExp.prototype.test converts its argument
toStr(x) == IF x = Undefined THEN S_undefined ELSE x

\* mutant: letters keep their case
toLowerCaseNot(s) == s

\* String.prototype.toLowerCase on the characters that occur
toLowerCase(s) == [ i \in 1..Len(s) |-> IF s[i] >= 65 /\ s[i] <= 90 THEN s[i] + 32 ELSE s[i] ]

\* the string p occurs in s at position i
occursAt(s, i, p) == i + Len(p) - 1 <= Len(s) /\ SubSeq(s, i, i + Len(p) - 1) = p

\* /^utf-?8$/.test(s)
utf8Regexp(s) == toStr(s) = S_utf8 \/ toStr(s) = S_utf_8

\* mutant: binary is not in the list of encodings that are returned as is
notEncodedRegexpNoBinary(x) ==
  LET s == toStr(x)
  IN  \/ occursAt(s, 1, S_7bit) \/ occursAt(s, 1, S_8bit)
      \/ \E i \in 1..Len(s) :
           /\ occursAt(s, i, S_x_) /\ i + 2 <= Len(s)
           /\ \A j \in (i + 2)..Len(s) : ~ isLineTerminator(s[j])

\* /^(7|8)bit|binary|x-.+$/.test(x): the string starts with 7bit or 8bit, or
\* contains binary, or contains x- followed by at least one character and no
\* line terminator up to its end
notEncodedRegexp(x) ==
  LET s == toStr(x)
  IN  \/ occursAt(s, 1, S_7bit) \/ occursAt(s, 1, S_8bit)
      \/ \E i \in 1..Len(s) : occursAt(s, i, S_binary)
      \/ \E i \in 1..Len(s) :
           /\ occursAt(s, i, S_x_) /\ i + 2 <= Len(s)
           /\ \A j \in (i + 2)..Len(s) : ~ isLineTerminator(s[j])

\* value of a character of the base64 alphabets, -1 for any other character
unbase64(c) ==
  IF c >= 65 /\ c <= 90 THEN c - 65
  ELSE IF c >= 97 /\ c <= 122 THEN c - 71
  ELSE IF c >= 48 /\ c <= 57 THEN c + 4
  ELSE IF c = 43 \/ c = 45 THEN 62
  ELSE IF c = 47 \/ c = 95 THEN 63
  ELSE -1

\* the values of the legal characters of s up to the first '=': illegal
\* characters (line breaks among them) are skipped, '=' stops the decoding
RECURSIVE sextets(_, _)
sextets(s, i) ==
  IF i > Len(s) \/ s[i] = EQ THEN <<>>
  ELSE IF unbase64(s[i]) < 0 THEN sextets(s, i + 1)
  ELSE << unbase64(s[i]) >> \o sextets(s, i + 1)

RECURSIVE sextetsToBytes(_, _)
sextetsToBytes(v, i) ==
  IF i + 1 > Len(v) THEN <<>>
  ELSE IF i + 1 = Len(v)
       THEN << v[i] * 4 + (v[i + 1] \div 16) >>
  ELSE IF i + 2 = Len(v)
       THEN << v[i] * 4 + (v[i + 1] \div 16),
               (v[i + 1] % 16) * 16 + (v[i + 2] \div 4) >>
  ELSE << v[i] * 4 + (v[i + 1] \div 16),
          (v[i + 1] % 16) * 16 + (v[i + 2] \div 4),
          (v[i + 2] % 4) * 64 + v[i + 3] >> \o sextetsToBytes(v, i + 4)

\* Buffer.from(str, 'base64')
base64Decode(s) == sextetsToBytes(sextets(s, 1), 1)

\* Buffer.from(str, 'hex'): pairs of hexadecimal digits up to the first
\* pair that is not one
RECURSIVE hexDecode(_, _)
hexDecode(s, i) ==
  IF i + 1 > Len(s) \/ ~ isHex(s[i]) \/ ~ isHex(s[i + 1]) THEN <<>>
  ELSE << hexVal(s[i]) * 16 + hexVal(s[i + 1]) >> \o hexDecode(s, i + 2)

RECURSIVE ucs2Bytes(_)
ucs2Bytes(s) ==
  IF s = <<>> THEN <<>>
  ELSE << Head(s) % 256, Head(s) \div 256 >> \o ucs2Bytes(Tail(s))

\* Buffer.from(str, encoding) for a lower-case or absent encoding name; an
\* unknown name throws
BufferFrom(str, encoding) ==
  IF falsy(encoding) \/ encoding \in {S_utf8, S_utf_8} THEN BufferFromString(str)
  ELSE IF encoding \in {S_base64, S_base64url} THEN base64Decode(str)
  ELSE IF encoding = S_hex THEN hexDecode(str, 1)
  ELSE IF encoding \in {S_latin1, S_binary, S_ascii} THEN [ i \in 1..Len(str) |-> str[i] % 256 ]
  ELSE IF encoding \in {S_ucs2, S_ucs_2, S_utf16le, S_utf_16le} THEN ucs2Bytes(str)
  ELSE Throws

\* Buffer.prototype.toString(): UTF-8 decoding, every maximal ill-formed
\* part becoming U+FFFD
RECURSIVE utf8Decode(_, _)
utf8Decode(b, i) ==
  IF i > Len(b) THEN <<>>
  ELSE
    LET c == b[i]
        cont(j) == j <= Len(b) /\ b[j] >= 128 /\ b[j] <= 191
        lo == IF c = 224 THEN 160 ELSE IF c = 240 THEN 144 ELSE 128
        hi == IF c = 237 THEN 159 ELSE IF c = 244 THEN 143 ELSE 191
        second == i + 1 <= Len(b) /\ b[i + 1] >= lo /\ b[i + 1] <= hi
    IN  IF c < 128 THEN << c >> \o utf8Decode(b, i + 1)
        ELSE IF c >= 194 /\ c <= 223
        THEN IF cont(i + 1)
             THEN << (c - 192) * 64 + (b[i + 1] - 128) >> \o utf8Decode(b, i + 2)
             ELSE << 65533 >> \o utf8Decode(b, i + 1)
        ELSE IF c >= 224 /\ c <= 239
        THEN IF ~ second THEN << 65533 >> \o utf8Decode(b, i + 1)
             ELSE IF ~ cont(i + 2) THEN << 65533 >> \o utf8Decode(b, i + 2)
             ELSE << (c - 224) * 4096 + (b[i + 1] - 128) * 64 + (b[i + 2] - 128) >>
                  \o utf8Decode(b, i + 3)
        ELSE IF c >= 240 /\ c <= 244
        THEN IF ~ second THEN << 65533 >> \o utf8Decode(b, i + 1)
             ELSE IF ~ cont(i + 2) THEN << 65533 >> \o utf8Decode(b, i + 2)
             ELSE IF ~ cont(i + 3) THEN << 65533 >> \o utf8Decode(b, i + 3)
             ELSE LET cp == (c - 240) * 262144 + (b[i + 1] - 128) * 4096
                            + (b[i + 2] - 128) * 64 + (b[i + 3] - 128) - 65536
                  IN  << 55296 + (cp \div 1024), 56320 + (cp % 1024) >>
                      \o utf8Decode(b, i + 4)
        ELSE << 65533 >> \o utf8Decode(b, i + 1)

bufferToString(buffer) == utf8Decode(buffer, 1)

\* the name iconv-lite looks a charset up by: lower case, letters and digits
canonicalCharset(charset) ==
  SelectSeq(toLowerCase(charset),
            LAMBDA c : (c >= 48 /\ c <= 57) \/ (c >= 97 /\ c <= 122))

\* require('iconv-lite').decode(buffer, charset): ISO-8859-1 maps every byte
\* to the character of the same code; a name it does not know throws
iconvDecode(buffer, charset) ==
  IF canonicalCharset(charset) \in {S_iso88591, S_latin1} THEN buffer
  ELSE IF canonicalCharset(charset) = S_utf8 THEN bufferToString(buffer)
  ELSE Throws

\* decode(str, encoding, charset)
decode(str, encoding, charset) ==
  LET inputEncoding == IF falsy(encoding) THEN encoding ELSE toLowerCase(encoding)
      isUTF8Input == falsy(inputEncoding) \/ utf8Regexp(inputEncoding)
      isUTF8Output == falsy(charset) \/ utf8Regexp(toLowerCase(charset))
  IN  IF isUTF8Input /\ isUTF8Output THEN str
      ELSE IF notEncodedRegexp(inputEncoding) THEN str
      ELSE LET buffer == IF inputEncoding = S_quoted_printable
                         THEN qpDecode(str)
                         ELSE BufferFrom(str, inputEncoding)
           IN  IF buffer = Throws THEN Throws
               ELSE IF isUTF8Output THEN bufferToString(buffer)
               ELSE iconvDecode(buffer, charset)

\* ----------------------------------------------------------------------
\* Messages (src/unnamed/part_004, typedefs at lines 13-46)
\*
\* A part is a record with Headers, a function from the header names it
\* carries to their lists of values, with Body, a string, and with props,
\* the properties the library has defined on it.  A message is a record
\* with Content, a part, with Created, with props, and with MIME.Parts, a
\* list of parts, when it is a multipart message.  A property is a getter
\* or a data property; a name outside DOMAIN props is not a property.
\* ----------------------------------------------------------------------
S_text_plain == << 116, 101, 120, 116, 47, 112, 108, 97, 105, 110 >>   \* "text/plain"
S_text_html == << 116, 101, 120, 116, 47, 104, 116, 109, 108 >>   \* "text/html"
S_charset_eq == << 99, 104, 97, 114, 115, 101, 116, 61 >>   \* "charset="

\* Array.prototype.join
RECURSIVE join(_, _)
join(list, sep) ==
  IF list = << >> THEN << >>
  ELSE IF Len(list) = 1 THEN list[1]
  ELSE list[1] \o sep \o join(Tail(list), sep)

\* (part.Headers[key] || '').toString(): a list of values, also an empty
\* one, is truthy and converts to its values joined by commas
headerToString(part, key) ==
  IF key \in DOMAIN part.Headers THEN join(part.Headers[key], << 44 >>) ELSE << >>

\* /^text\/plain($|;)/i.test(type) and /^text\/html($|;)/i.test(type), the
\* expression given by the type it names
typeRegExpTest(typeRegExp, type) ==
  /\ Len(type) >= Len(typeRegExp)
  /\ toLowerCase(SubSeq(type, 1, Len(typeRegExp))) = typeRegExp
  /\ (Len(type) = Len(typeRegExp) \/ type[Len(typeRegExp) + 1] = 59)

\* \w
isWordChar(c) ==
  (c >= 48 /\ c <= 57) \/ (c >= 65 /\ c <= 90) \/ (c >= 97 /\ c <= 122) \/ c = 95

\* the length of the longest run of [\w_-] that starts at position i
RECURSIVE charsetRunLen(_, _)
charsetRunLen(type, i) ==
  IF i <= Len(type) /\ (isWordChar(type[i]) \/ type[i] = 45)
  THEN 1 + charsetRunLen(type, i + 1)
  ELSE 0

\* /\bcharset=([\w_-]+)(?:;|$)/ matches at position i
charsetMatchAt(type, i) ==
  /\ occursAt(type, i, S_charset_eq)
  /\ (i = 1 \/ ~isWordChar(type[i - 1]))
  /\ LET n == charsetRunLen(type, i + 8)
     IN  n >= 1 /\ (i + 8 + n > Len(type) \/ type[i + 8 + n] = 59)

\* /\bcharset=([\w_-]+)(?:;|$)/.exec(type): match[1] of the leftmost match
charsetOf(type) ==
  LET at == { i \in 1..Len(type) : charsetMatchAt(type, i) }
  IN  IF at = {} THEN Undefined
      ELSE LET i == CHOOSE k \in at : \A j \in at : k <= j
           IN  SubSeq(type, i + 8, i + 7 + charsetRunLen(type, i + 8))

\* [mail.Content].concat(mail.MIME.Parts) when the message has a MIME field
candidateParts(mail) ==
  IF "MIME" \in DOMAIN mail THEN << mail.Content >> \o mail.MIME.Parts
  ELSE << mail.Content >>

\* mutant: the loop of getContent runs over the parts from the last to the
\* first
RECURSIVE getContentFromLast(_, _, _)
getContentFromLast(parts, i, typeRegExp) ==
  IF i > Len(parts) THEN Undefined
  ELSE LET part == parts[Len(parts) + 1 - i]
           type == headerToString(part, "Content-Type")
       IN  IF typeRegExpTest(typeRegExp, type)
           THEN decode(part.Body,
                       headerToString(part, "Content-Transfer-Encoding"),
                       charsetOf(type))
           ELSE getContentFromLast(parts, i + 1, typeRegExp)

\* the loop of getContent from part i on
RECURSIVE getContentFrom(_, _, _)
getContentFrom(parts, i, typeRegExp) ==
  IF i > Len(parts) THEN Undefined
  ELSE LET part == parts[i]
           type == headerToString(part, "Content-Type")
       IN  IF typeRegExpTest(typeRegExp, type)
           THEN decode(part.Body,
                       headerToString(part, "Content-Transfer-Encoding"),
                       charsetOf(type))
           ELSE getContentFrom(parts, i + 1, typeRegExp)

\* getContent(mail, typeRegExp)
getContent(mail, typeRegExp) == getContentFrom(candidateParts(mail), 1, typeRegExp)

\* charsetDecode(buffer, charset) of src/src/getContentPart.js; its
\* expression /utf-?8/i is not anchored
charsetDecode(buffer, charset) ==
  IF falsy(charset)
     \/ \E i \in 1..Len(charset) :
          occursAt(toLowerCase(charset), i, S_utf8)
          \/ occursAt(toLowerCase(charset), i, S_utf_8)
  THEN bufferToString(buffer)
  ELSE iconvDecode(buffer, charset)

\* decode(str, encoding, charset) of src/src/getContentPart.js
decodeSrc(str, encoding, charset) ==
  LET name == IF falsy(encoding) THEN << >> ELSE toLowerCase(encoding)
  IN  IF name = S_base64 THEN charsetDecode(BufferFrom(str, S_base64), charset)
      ELSE IF name = S_quoted_printable THEN charsetDecode(qpDecode(str), charset)
      ELSE str

\* parts.find(...) of getContentPart: the index of the first part whose type
\* passes the test, 0 when there is none
RECURSIVE findPart(_, _, _)
findPart(parts, i, typeRegExp) ==
  IF i > Len(parts) THEN 0
  ELSE IF typeRegExpTest(typeRegExp, headerToString(parts[i], "Content-Type")) THEN i
  ELSE findPart(parts, i + 1, typeRegExp)

\* getContentPart(mail, typeRegExp) of src/src/getContentPart.js; the object
\* { type, content } is the pair << type, content >>
getContentPart(mail, typeRegExp) ==
  LET parts == candidateParts(mail)
      k == findPart(parts, 1, typeRegExp)
  IN  IF k = 0 THEN Undefined
      ELSE LET type == headerToString(parts[k], "Content-Type")
               content == decodeSrc(parts[k].Body,
                                    headerToString(parts[k], "Content-Transfer-Encoding"),
                                    charsetOf(type))
           IN  IF content = Throws THEN Throws ELSE << type, content >>

\* headerDecoder(_, charset, encoding, data)
headerDecoder(charset, encoding, data) ==
  IF encoding \in {98, 66} THEN decode(data, S_base64, charset)
  ELSE IF encoding \in {113, 81} THEN decode(data, S_quoted_printable, charset)
  ELSE Undefined

\* the position of the first character c of s at or after position from, 0
\* when there is none
RECURSIVE indexOfChar(_, _, _)
indexOfChar(s, c, from) ==
  IF from > Len(s) THEN 0
  ELSE IF s[from] = c THEN from
  ELSE indexOfChar(s, c, from + 1)

\* the match of /=\?([^?]+)\?([BbQq])\?([^?]+)\?=/ that starts at position p:
\* [^?]+ runs to the next '?', so a position has at most one match
encodedWordAt(s, p) ==
  LET q1 == indexOfChar(s, 63, p + 2)
      q2 == indexOfChar(s, 63, q1 + 3)
  IN  IF /\ p + 1 <= Len(s) /\ s[p] = EQ /\ s[p + 1] = 63
         /\ q1 > p + 2
         /\ q1 + 2 <= Len(s) /\ s[q1 + 1] \in {66, 98, 81, 113} /\ s[q1 + 2] = 63
         /\ q2 > q1 + 3
         /\ q2 + 1 <= Len(s) /\ s[q2 + 1] = EQ
      THEN [ok |-> TRUE, charset |-> SubSeq(s, p + 2, q1 - 1), encoding |-> s[q1 + 1],
            data |-> SubSeq(s, q1 + 3, q2 - 1), end |-> q2 + 1]
      ELSE [ok |-> FALSE, charset |-> << >>, encoding |-> 0, data |-> << >>, end |-> p]

\* mutant: the regular expression is not global, and the first encoded word
\* only is replaced
RECURSIVE replaceFirstEncodedWord(_, _)
replaceFirstEncodedWord(s, p) ==
  IF p > Len(s) THEN << >>
  ELSE LET w == encodedWordAt(s, p)
           head == IF w.ok THEN headerDecoder(w.charset, w.encoding, w.data)
                   ELSE << s[p] >>
           rest == IF w.ok THEN SubSeq(s, w.end + 1, Len(s))
                   ELSE replaceFirstEncodedWord(s, p + 1)
       IN  IF head = Throws \/ rest = Throws THEN Throws ELSE head \o rest

\* header[0].replace(/=\?([^?]+)\?([BbQq])\?([^?]+)\?=/g, headerDecoder) from
\* position p on; it throws when headerDecoder throws
RECURSIVE replaceEncodedWords(_, _)
replaceEncodedWords(s, p) ==
  IF p > Len(s) THEN << >>
  ELSE LET w == encodedWordAt(s, p)
           head == IF w.ok THEN headerDecoder(w.charset, w.encoding, w.data)
                   ELSE << s[p] >>
           rest == replaceEncodedWords(s, w.end + 1)
       IN  IF head = Throws \/ rest = Throws THEN Throws ELSE head \o rest

\* mutant: an empty list of values is not told from a list with a value, and
\* the call of replace on header[0], which is undefined, throws
getHeaderNoLength(mail, key) ==
  LET obj == IF "Content" \in DOMAIN mail THEN mail.Content ELSE mail
  IN  IF key \notin DOMAIN obj.Headers THEN Undefined
      ELSE IF Len(obj.Headers[key]) = 0 THEN Throws
      ELSE replaceEncodedWords(obj.Headers[key][1], 1)

\* getHeader(mail, key)
getHeader(mail, key) ==
  LET obj == IF "Content" \in DOMAIN mail THEN mail.Content ELSE mail
  IN  IF key \notin DOMAIN obj.Headers THEN Undefined
      ELSE IF Len(obj.Headers[key]) = 0 THEN Undefined
      ELSE replaceEncodedWords(obj.Headers[key][1], 1)

\* ----------------------------------------------------------------------
\* Memoized getters (src/unnamed/part_004, lines 241-436).  A getter
\* function gives the record of the message as it leaves it and of the
\* value it returns, Throws when it throws.
\* ----------------------------------------------------------------------
S_attachment == << 97, 116, 116, 97, 99, 104, 109, 101, 110, 116, 59 >>   \* "attachment;"
S_filename_eq == << 102, 105, 108, 101, 110, 97, 109, 101, 61 >>   \* "filename="

Fields ==
  {"text", "html", "subject", "from", "to", "cc", "bcc", "replyTo", "date",
   "deliveryDate", "attachments"}

Getter == [kind |-> "getter", val |-> Undefined]

\* obj has the property name and it is an accessor without a setter
isGetter(obj, name) == name \in DOMAIN obj.props /\ obj.props[name].kind = "getter"

\* mutant: the property is not deleted
deletePropNot(obj, name) == obj

\* delete obj[name]
deleteProp(obj, name) ==
  [obj EXCEPT !.props = [ k \in DOMAIN obj.props \ {name} |-> obj.props[k] ]]

\* Object.defineProperty(obj, name, { get: ..., configurable: true })
defineGetter(obj, name) ==
  [obj EXCEPT !.props = [ k \in DOMAIN obj.props \cup {name} |->
                            IF k = name THEN Getter ELSE obj.props[k] ]]

\* obj[name] = val, for an obj on which name is not an accessor
assignProp(obj, name, val) ==
  [obj EXCEPT !.props = [ k \in DOMAIN obj.props \cup {name} |->
                            IF k = name THEN [kind |-> "data", val |-> val]
                            ELSE obj.props[k] ]]

\* obj[name], for an obj on which name is not an accessor
propValue(obj, name) ==
  IF name \in DOMAIN obj.props THEN obj.props[name].val ELSE Undefined

\* delete this[name]; return (this[name] = val): the value is computed after
\* the delete and the assignment is not reached when computing it throws;
\* in strict mode the assignment to an accessor without a setter throws
memoize(this, name, val) ==
  LET deleted == deleteProp(this, name)
  IN  IF val = Throws \/ isGetter(deleted, name)
      THEN [mail |-> deleted, val |-> Throws]
      ELSE [mail |-> assignProp(deleted, name, val), val |-> val]

\* s is a year of four digits, a date-time string of Date.parse
isYear(s) == Len(s) = 4 /\ \A i \in 1..4 : s[i] >= 48 /\ s[i] <= 57

\* the leap years from year 1 to year y
leapYears(y) == (y \div 4) - (y \div 100) + (y \div 400)

\* new Date(Date.parse(s)): the tag -3 followed by the time value, counted
\* in days of 86400000 ms, of January 1st of the year s names; the tag alone
\* is the invalid Date of the time value NaN, which is what every other
\* string of the messages considered here gives
newDate(s) ==
  IF isYear(s)
  THEN LET y == (s[1] - 48) * 1000 + (s[2] - 48) * 100 + (s[3] - 48) * 10 + (s[4] - 48)
       IN  << -3, 365 * (y - 1970) + (IF y = 0 THEN -1 ELSE leapYears(y - 1)) - leapYears(1969) >>
  ELSE << -3 >>

getText(this) == memoize(this, "text", getContent(deleteProp(this, "text"), S_text_plain))

getHTML(this) == memoize(this, "html", getContent(deleteProp(this, "html"), S_text_html))

getSubject(this) == memoize(this, "subject", getHeader(deleteProp(this, "subject"), "Subject"))

getFrom(this) == memoize(this, "from", getHeader(deleteProp(this, "from"), "From"))

getTo(this) == memoize(this, "to", getHeader(deleteProp(this, "to"), "To"))

getCc(this) == memoize(this, "cc", getHeader(deleteProp(this, "cc"), "Cc"))

getBcc(this) == memoize(this, "bcc", getHeader(deleteProp(this, "bcc"), "Bcc"))

getReplyTo(this) == memoize(this, "replyTo", getHeader(deleteProp(this, "replyTo"), "Reply-To"))

\* getDate: this.date is assigned only when the header gave a non-empty
\* string, and this.date is read again for the value returned
getDate(this) ==
  LET deleted == deleteProp(this, "date")
      dateString == getHeader(deleted, "Date")
  IN  IF dateString = Throws THEN [mail |-> deleted, val |-> Throws]
      ELSE IF falsy(dateString)
      THEN [mail |-> deleted,
            val |-> IF isGetter(deleted, "date") THEN Throws ELSE propValue(deleted, "date")]
      ELSE memoize(this, "date", newDate(dateString))

\* mutant: the Date header is parsed when the message has one
getDeliveryDateOfHeader(this) ==
  memoize(this, "deliveryDate",
          newDate(IF getHeader(this, "Date") \in {Undefined, Throws}
                  THEN this.Created ELSE getHeader(this, "Date")))

getDeliveryDate(this) == memoize(this, "deliveryDate", newDate(this.Created))

getContentType(this) ==
  memoize(this, "type", getHeader(deleteProp(this, "type"), "Content-Type"))

getContentTransferEncoding(this) ==
  memoize(this, "encoding",
          getHeader(deleteProp(this, "encoding"), "Content-Transfer-Encoding"))

\* \s
isSpace(c) ==
  c \in {9, 10, 11, 12, 13, 32, 160, 5760, 8232, 8233, 8239, 8287, 12288, 65279}
  \/ (c >= 8192 /\ c <= 8202)

\* the first position at or after i that holds no white space
RECURSIVE skipSpace(_, _)
skipSpace(s, i) == IF i <= Len(s) /\ isSpace(s[i]) THEN skipSpace(s, i + 1) ELSE i

\* match[1] of /^attachment;\s*filename="?([^"]+)"?$/.exec(s), Undefined
\* when there is no match: a quote after '=' must be taken by the first "?,
\* and what follows is a non-empty run without quotes, or such a run and a
\* closing quote
attachmentName(s) ==
  LET i == skipSpace(s, Len(S_attachment) + 1)
      j == i + Len(S_filename_eq)
      from == IF j <= Len(s) /\ s[j] = 34 THEN j + 1 ELSE j
      t == SubSeq(s, from, Len(s))
      name == IF t # << >> /\ t[Len(t)] = 34 THEN SubSeq(t, 1, Len(t) - 1) ELSE t
  IN  IF /\ occursAt(s, 1, S_attachment)
         /\ occursAt(s, i, S_filename_eq)
         /\ name # << >>
         /\ \A k \in 1..Len(name) : name[k] # 34
      THEN name
      ELSE Undefined

\* String(part.Headers['Content-Disposition']), as RegExp.prototype.exec
\* converts its argument
dispositionString(part) ==
  IF "Content-Disposition" \in DOMAIN part.Headers
  THEN join(part.Headers["Content-Disposition"], << 44 >>)
  ELSE S_undefined

\* the body of the loop of getAttachments for one part: a part that matches
\* gets the property name and the getters type and encoding
attachPart(part) ==
  IF attachmentName(dispositionString(part)) = Undefined THEN part
  ELSE defineGetter(
         defineGetter(
           assignProp(part, "name", attachmentName(dispositionString(part))),
           "type"),
         "encoding")

\* the attachments pushed by the loop: the tag -4 followed by the indices,
\* counted from 1, of the parts of MIME.Parts that the list refers to
RECURSIVE attachmentsFrom(_, _)
attachmentsFrom(parts, i) ==
  IF i > Len(parts) THEN << >>
  ELSE IF attachmentName(dispositionString(parts[i])) = Undefined
  THEN attachmentsFrom(parts, i + 1)
  ELSE << i >> \o attachmentsFrom(parts, i + 1)

getAttachments(this) ==
  LET deleted == deleteProp(this, "attachments")
      looped ==
        IF "MIME" \in DOMAIN deleted
        THEN [deleted EXCEPT !.MIME.Parts =
                [ i \in 1..Len(deleted.MIME.Parts) |-> attachPart(deleted.MIME.Parts[i]) ]]
        ELSE deleted
      attachments ==
        << -4 >> \o (IF "MIME" \in DOMAIN deleted
                     THEN attachmentsFrom(deleted.MIME.Parts, 1) ELSE << >>)
  IN  IF isGetter(looped, "attachments") THEN [mail |-> looped, val |-> Throws]
      ELSE [mail |-> assignProp(looped, "attachments", attachments), val |-> attachments]

\* the getter function injectProperties defines for a field
getterOf(this, field) ==
  CASE field = "text" -> getText(this)
    [] field = "html" -> getHTML(this)
    [] field = "subject" -> getSubject(this)
    [] field = "from" -> getFrom(this)
    [] field = "to" -> getTo(this)
    [] field = "cc" -> getCc(this)
    [] field = "bcc" -> getBcc(this)
    [] field = "replyTo" -> getReplyTo(this)
    [] field = "date" -> getDate(this)
    [] field = "deliveryDate" -> getDeliveryDate(this)
    [] field = "attachments" -> getAttachments(this)

\* the getter function getAttachments defines on a part
partGetterOf(this, field) ==
  IF field = "type" THEN getContentType(this) ELSE getContentTransferEncoding(this)

\* injectProperties for one item of a result whose count is not 0
RECURSIVE defineGetters(_, _)
defineGetters(item, names) ==
  IF names = {} THEN item
  ELSE LET name == CHOOSE n \in names : TRUE
       IN  defineGetters(defineGetter(item, name), names \ {name})

injectProperties(item) == defineGetters(item, Fields)

\* ----------------------------------------------------------------------
\* The library of src/index.js, the names of its functions prefixed by
\* index_
\* ----------------------------------------------------------------------
IndexFields ==
  {"text", "html", "subject", "from", "to", "cc", "bcc", "replyTo", "date",
   "deliveryDate"}

\* decode(str, encoding, charset): without a known encoding the string
\* itself is the buffer; its toString is the string, and iconv-lite turns a
\* string it is given into the Buffer of its 'binary' encoding
index_decode(str, encoding, charset) ==
  LET name == IF falsy(encoding) THEN << >> ELSE toLowerCase(encoding)
      isString == name # S_base64 /\ name # S_quoted_printable
      buffer == IF name = S_base64 THEN BufferFrom(str, S_base64)
                ELSE IF name = S_quoted_printable THEN qpDecode(str)
                ELSE str
  IN  IF falsy(charset) \/ utf8Regexp(toLowerCase(charset))
      THEN IF isString THEN buffer ELSE bufferToString(buffer)
      ELSE iconvDecode(IF isString THEN BufferFrom(str, S_binary) ELSE buffer, charset)

\* the loop of getContent from part i on
RECURSIVE index_getContentFrom(_, _, _)
index_getContentFrom(parts, i, typeRegExp) ==
  IF i > Len(parts) THEN Undefined
  ELSE LET part == parts[i]
           type == headerToString(part, "Content-Type")
       IN  IF typeRegExpTest(typeRegExp, type)
           THEN index_decode(part.Body,
                             headerToString(part, "Content-Transfer-Encoding"),
                             charsetOf(type))
           ELSE index_getContentFrom(parts, i + 1, typeRegExp)

index_getContent(mail, typeRegExp) ==
  index_getContentFrom(candidateParts(mail), 1, typeRegExp)

index_headerDecoder(charset, encoding, data) ==
  IF encoding \in {98, 66} THEN index_decode(data, S_base64, charset)
  ELSE IF encoding \in {113, 81} THEN index_decode(data, S_quoted_printable, charset)
  ELSE Undefined

RECURSIVE index_replaceEncodedWords(_, _)
index_replaceEncodedWords(s, p) ==
  IF p > Len(s) THEN << >>
  ELSE LET w == encodedWordAt(s, p)
           head == IF w.ok THEN index_headerDecoder(w.charset, w.encoding, w.data)
                   ELSE << s[p] >>
           rest == index_replaceEncodedWords(s, w.end + 1)
       IN  IF head = Throws \/ rest = Throws THEN Throws ELSE head \o rest

\* getHeader(mail, key): Delivery-Date is the Created property, and the
\* Date header becomes a Date
index_getHeader(mail, key) ==
  IF key = "Delivery-Date" THEN newDate(mail.Created)
  ELSE IF key \notin DOMAIN mail.Content.Headers THEN Undefined
  ELSE IF Len(mail.Content.Headers[key]) = 0 THEN Undefined
  ELSE IF key = "Date" THEN newDate(mail.Content.Headers[key][1])
  ELSE index_replaceEncodedWords(mail.Content.Headers[key][1], 1)

index_getText(this) ==
  memoize(this, "text", index_getContent(deleteProp(this, "text"), S_text_plain))

index_getHTML(this) ==
  memoize(this, "html", index_getContent(deleteProp(this, "html"), S_text_html))

index_getSubject(this) ==
  memoize(this, "subject", index_getHeader(deleteProp(this, "subject"), "Subject"))

index_getFrom(this) ==
  memoize(this, "from", index_getHeader(deleteProp(this, "from"), "From"))

index_getTo(this) == memoize(this, "to", index_getHeader(deleteProp(this, "to"), "To"))

\* the five getters that follow delete and assign this.to
index_getCc(this) == memoize(this, "to", index_getHeader(deleteProp(this, "to"), "Cc"))

index_getBcc(this) == memoize(this, "to", index_getHeader(deleteProp(this, "to"), "Bcc"))

index_getReplyTo(this) ==
  memoize(this, "to", index_getHeader(deleteProp(this, "to"), "Reply-To"))

index_getDate(this) == memoize(this, "to", index_getHeader(deleteProp(this, "to"), "Date"))

index_getDeliveryDate(this) ==
  memoize(this, "to", index_getHeader(deleteProp(this, "to"), "Delivery-Date"))

\* the getter function injectProperties defines for a field
index_getterOf(this, field) ==
  CASE field = "text" -> index_getText(this)
    [] field = "html" -> index_getHTML(this)
    [] field = "subject" -> index_getSubject(this)
    [] field = "from" -> index_getFrom(this)
    [] field = "to" -> index_getTo(this)
    [] field = "cc" -> index_getCc(this)
    [] field = "bcc" -> index_getBcc(this)
    [] field = "replyTo" -> index_getReplyTo(this)
    [] field = "date" -> index_getDate(this)
    [] field = "deliveryDate" -> index_getDeliveryDate(this)

index_injectProperties(item) == defineGetters(item, IndexFields)

\* ----------------------------------------------------------------------
\* The transfer encoder (src/unnamed/part_004, lines 105-143)
\* ----------------------------------------------------------------------
\* the outcome of a call that never returns
Diverges == << -5 >>

\* a lineLength argument that is undefined, and one that is false
NoLineLength == -1
FalseLineLength == -2

\* the while loop of libqp.wrap from position pos on: an iteration that
\* does not advance pos finds the same line at the same position again and
\* again, and the loop never ends
RECURSIVE qpWrapFrom(_, _, _)
qpWrapFrom(input, pos, maxLength) ==
  IF pos >= Len(input) THEN << >>
  ELSE LET w == wrapLine(input, pos, maxLength)
       IN  IF w.adv = 0 THEN Diverges
           ELSE LET rest == qpWrapFrom(input, pos + w.adv, maxLength)
                IN  IF rest = Diverges THEN Diverges
                    ELSE w.line \o (IF w.soft THEN SoftBreak ELSE << >>) \o rest

\* libqp.wrap(str, lineLength)
qpWrap(str, lineLength) ==
  LET maxLength == IF lineLength = 0 THEN 76 ELSE lineLength
  IN  IF Len(str) <= maxLength THEN str ELSE qpWrapFrom(str, 0, maxLength)

\* String.prototype.trim
RECURSIVE trim(_)
trim(s) ==
  IF s = << >> THEN s
  ELSE IF isSpace(s[1]) THEN trim(Tail(s))
  ELSE IF isSpace(s[Len(s)]) THEN trim(SubSeq(s, 1, Len(s) - 1))
  ELSE s

\* the for loop of wrap from line i on; lines is Math.ceil(str.length /
\* maxLength)
RECURSIVE wrapLines(_, _, _)
wrapLines(str, i, maxLength) ==
  IF i >= (Len(str) + maxLength - 1) \div maxLength THEN << >>
  ELSE substr(str, i * maxLength, maxLength) \o << CR, LF >>
       \o wrapLines(str, i + 1, maxLength)

\* mutant: the output is not trimmed
wrapNoTrim(str, lineLength) ==
  wrapLines(str, 0, IF lineLength = 0 THEN 76 ELSE lineLength)

\* wrap(str, lineLength)
wrap(str, lineLength) ==
  trim(wrapLines(str, 0, IF lineLength = 0 THEN 76 ELSE lineLength))

\* a digit of base64
base64Char(n) ==
  IF n < 26 THEN 65 + n
  ELSE IF n < 52 THEN 97 + (n - 26)
  ELSE IF n < 62 THEN 48 + (n - 52)
  ELSE IF n = 62 THEN 43 ELSE 47

\* buffer.toString('base64')
RECURSIVE base64Encode(_)
base64Encode(b) ==
  IF b = << >> THEN << >>
  ELSE IF Len(b) = 1
  THEN << base64Char(b[1] \div 4), base64Char((b[1] % 4) * 16), EQ, EQ >>
  ELSE IF Len(b) = 2
  THEN << base64Char(b[1] \div 4), base64Char((b[1] % 4) * 16 + (b[2] \div 16)),
          base64Char((b[2] % 16) * 4), EQ >>
  ELSE << base64Char(b[1] \div 4), base64Char((b[1] % 4) * 16 + (b[2] \div 16)),
          base64Char((b[2] % 16) * 4 + (b[3] \div 64)), base64Char(b[3] % 64) >>
       \o base64Encode(SubSeq(b, 4, Len(b)))

\* require('iconv-lite').encode(str, charset): ISO-8859-1 has a byte for the
\* characters up to 255 and '?' for the others; a name it does not know
\* throws
iconvEncode(str, charset) ==
  IF canonicalCharset(charset) \in {S_iso88591, S_latin1}
  THEN [ i \in 1..Len(str) |-> IF str[i] < 256 THEN str[i] ELSE 63 ]
  ELSE IF canonicalCharset(charset) = S_utf8 THEN BufferFromString(str)
  ELSE Throws

\* mutant: the line lengths 0 and false stand for the default of 76, as the
\* absent one does
encodeDefaultLength(str, encoding, charset, lineLength) ==
  LET maxLength == IF lineLength \in {NoLineLength, FalseLineLength, 0}
                   THEN 76 ELSE lineLength
      outputEncoding == IF falsy(encoding) THEN encoding ELSE toLowerCase(encoding)
      isUTF8Input == falsy(charset) \/ utf8Regexp(toLowerCase(charset))
      buffer == IF isUTF8Input THEN BufferFromString(str) ELSE iconvEncode(str, charset)
  IN  IF outputEncoding \in {S_quoted_printable, S_base64}
      THEN IF buffer = Throws THEN Throws
           ELSE IF outputEncoding = S_quoted_printable
           THEN qpWrap(qpEncode(buffer), maxLength)
           ELSE wrap(base64Encode(buffer), maxLength)
      ELSE wrap(str, maxLength)

\* encode(str, encoding, charset, lineLength)
encode(str, encoding, charset, lineLength) ==
  LET maxLength == IF lineLength = NoLineLength THEN 76 ELSE lineLength
      wrapping == maxLength # 0 /\ maxLength # FalseLineLength
      outputEncoding == IF falsy(encoding) THEN encoding ELSE toLowerCase(encoding)
      isUTF8Input == falsy(charset) \/ utf8Regexp(toLowerCase(charset))
      buffer == IF isUTF8Input THEN BufferFromString(str) ELSE iconvEncode(str, charset)
  IN  IF outputEncoding \in {S_quoted_printable, S_base64}
      THEN IF buffer = Throws THEN Throws
           ELSE IF outputEncoding = S_quoted_printable
           THEN IF wrapping THEN qpWrap(qpEncode(buffer), maxLength) ELSE qpEncode(buffer)
           ELSE IF wrapping THEN wrap(base64Encode(buffer), maxLength)
           ELSE base64Encode(buffer)
      ELSE IF wrapping THEN wrap(str, maxLength) ELSE str

\* ----------------------------------------------------------------------
\* Inputs
\* ----------------------------------------------------------------------
SeqsUpTo(S, n) == UNION { [1..k -> S] : k \in 0..n }

\* bytes of every class encode and decode distinguish: TAB, LF, CR, SPACE,
\* '=', a letter that is a hexadecimal digit, a UTF-8 lead and a
\* continuation byte
ByteAlphabet == {TAB, LF, CR, SP, EQ, 65, 195, 188}

\* characters of valid text: 'A', SPACE, '=', a 2-byte and a 3-byte character
TextAlphabet == {65, SP, EQ, 252, 26085}

\* characters of raw strings handed to wrap
RawAlphabet == {LF, CR, SP, EQ, 65}

\* ----------------------------------------------------------------------
\* State of the quoted-printable machine
\* ----------------------------------------------------------------------
VARIABLES
  pc,          \* position of the run: "encode", "encoded", "loop", "wrapped", "decoded"
  arg,         \* the argument of libqp.encode: a string or a Buffer
  lineLength,  \* the lineLength argument of libqp.wrap
  input,       \* wrap: input (the encoded or the raw string)
  pos,         \* wrap: pos
  result,      \* wrap: result
  iter,        \* iterations of wrap's loop so far
  pieces,      \* the pieces wrap's iterations emitted: [from, to, soft]
  out,         \* libqp.decode's Buffer
  callPc,      \* a call of a function of the library: "idle", "call", "returned"
  callArgs,    \* the arguments of that call
  callRet,     \* what the call returned
  mail,        \* the message object the library works on
  calls,       \* for each field, how often its getter function has run
  nreads,      \* how many reads of properties there have been
  firstRead,   \* for each field read, what its first read returned
  lastRead     \* the field read last and what that read returned

qpVars == << pc, arg, lineLength, input, pos, result, iter, pieces, out >>

callVars == << callPc, callArgs, callRet >>

mailVars == << mail, calls, nreads, firstRead, lastRead >>

vars == << qpVars, callVars, mailVars >>

\* there is no message
NoRead == [f |-> "none", part |-> 0, val |-> Undefined, again |-> FALSE]

MailIdle ==
  mail = << >> /\ calls = << >> /\ nreads = 0 /\ firstRead = << >> /\ lastRead = NoRead

\* no call of a function of the library is under way
CallIdle == callPc = "idle" /\ callArgs = << >> /\ callRet = Undefined

QpIdle ==
  /\ input = <<>> /\ pos = 0 /\ result = <<>> /\ iter = 0 /\ pieces = <<>> /\ out = <<>>
  /\ CallIdle /\ MailIdle

\* the quoted-printable machine is not used
QpOff ==
  /\ pc = "off" /\ arg = [type |-> "none", val |-> <<>>] /\ lineLength = 0
  /\ input = <<>> /\ pos = 0 /\ result = <<>> /\ iter = 0 /\ pieces = <<>> /\ out = <<>>

\* libqp.encode is called with a Buffer
Init ==
  /\ pc = "encode"
  /\ arg \in { [type |-> "buffer", val |-> b] : b \in SeqsUpTo(ByteAlphabet, MaxBufLen) }
  /\ lineLength \in 4..MaxL
  /\ QpIdle

\* libqp.encode(buffer)
Encode ==
  /\ pc = "encode"
  /\ input' = qpEncode(IF arg.type = "string" THEN BufferFromString(arg.val) ELSE arg.val)
  /\ pc' = "encoded"
  /\ UNCHANGED << arg, lineLength, pos, result, iter, pieces, out, callVars, mailVars >>

\* libqp.wrap(str, lineLength) up to the loop
WrapBegin ==
  /\ pc \in {"encoded", "raw"}
  /\ LET maxLength == IF lineLength = 0 THEN 76 ELSE lineLength
     IN  IF Len(input) <= maxLength
         THEN pc' = "wrapped" /\ result' = input
         ELSE pc' = "loop" /\ result' = <<>>
  /\ pos' = 0
  /\ UNCHANGED << arg, lineLength, input, iter, pieces, out, callVars, mailVars >>

\* one iteration of the while loop of wrap, and the return when it ends
WrapIter ==
  /\ pc = "loop"
  /\ pos < Len(input)
  /\ iter < Len(input) + MaxExtraIter
  /\ LET maxLength == IF lineLength = 0 THEN 76 ELSE lineLength
         w == wrapLine(input, pos, maxLength)
     IN  /\ pos' = pos + w.adv
         /\ result' = result \o w.line \o (IF w.soft THEN SoftBreak ELSE <<>>)
         /\ pieces' = Append(pieces, [from |-> pos, to |-> pos + w.adv,
                                      line |-> w.line, soft |-> w.soft])
         /\ pc' = IF pos + w.adv < Len(input) THEN "loop" ELSE "wrapped"
  /\ iter' = iter + 1
  /\ UNCHANGED << arg, lineLength, input, out, callVars, mailVars >>

\* libqp.decode of the encoded string, or of the wrapped one
Decode ==
  /\ pc \in {"encoded", "wrapped"}
  /\ out' = qpDecode(IF pc = "encoded" THEN input ELSE result)
  /\ pc' = IF pc = "encoded" THEN "decoded" ELSE "unwrapped"
  /\ UNCHANGED << arg, lineLength, input, pos, result, iter, pieces, callVars, mailVars >>

Next == Encode \/ WrapBegin \/ WrapIter \/ Decode

Spec == Init /\ [][Next]_vars

\* libqp.encode is called with a string of valid text
InitText ==
  /\ pc = "encode"
  /\ arg \in { [type |-> "string", val |-> t] : t \in SeqsUpTo(TextAlphabet, MaxTextLen) }
  /\ lineLength \in 4..MaxTextL
  /\ QpIdle

SpecText == InitText /\ [][Next]_vars

\* the UTF-8 bytes of 'A', of u-umlaut, of a three-byte character and of a
\* four-byte character
Utf8Chars ==
  { << 65 >>, << 195, 188 >>, << 230, 151, 165 >>, << 240, 159, 152, 128 >> }

\* the bytes of a text: its characters' bytes one after the other
RECURSIVE bytesOfChars(_)
bytesOfChars(cs) == IF cs = <<>> THEN <<>> ELSE Head(cs) \o bytesOfChars(Tail(cs))

\* libqp.encode is called with the Buffer of a valid UTF-8 text, and
\* libqp.wrap with a line length of 24 or more
InitUtf8 ==
  /\ pc = "encode"
  /\ arg \in { [type |-> "buffer", val |-> bytesOfChars(cs)] :
                cs \in SeqsUpTo(Utf8Chars, MaxUtf8Chars) }
  /\ lineLength \in 24..MaxUtf8L
  /\ QpIdle

SpecUtf8 == InitUtf8 /\ [][Next]_vars

\* libqp.encode is called with a Buffer of bytes at the ends of the ranges
\* of encode: 0x00, TAB, LF, CR, 0x1F, SPACE, '<', '=', '>', '~', 0x7F, 0xFF
RangeAlphabet == {0, TAB, LF, CR, 31, SP, 60, EQ, 62, 126, 127, 255}

InitRanges ==
  /\ pc = "encode"
  /\ arg \in { [type |-> "buffer", val |-> b] : b \in SeqsUpTo(RangeAlphabet, MaxRangeLen) }
  /\ lineLength = 0
  /\ QpIdle

NextRanges == Encode \/ Decode

SpecRanges == InitRanges /\ [][NextRanges]_vars

\* libqp.wrap is called with any string
InitRaw ==
  /\ pc = "raw"
  /\ arg = [type |-> "none", val |-> <<>>]
  /\ lineLength \in 4..MaxRawL
  /\ input \in SeqsUpTo(RawAlphabet, MaxStrLen)
  /\ pos = 0 /\ result = <<>> /\ iter = 0 /\ pieces = <<>> /\ out = <<>>
  /\ CallIdle /\ MailIdle

NextWrap == WrapBegin \/ WrapIter \/ Decode

SpecWrap == InitRaw /\ [][NextWrap]_vars

\* libqp.wrap is called with a string over '=', 'A' and SPACE and with a
\* positive line length
InitShort ==
  /\ pc = "raw"
  /\ arg = [type |-> "none", val |-> <<>>]
  /\ lineLength \in 1..MaxShortL
  /\ input \in SeqsUpTo({EQ, 65, SP}, MaxShortLen)
  /\ pos = 0 /\ result = <<>> /\ iter = 0 /\ pieces = <<>> /\ out = <<>>
  /\ CallIdle /\ MailIdle

\* wrap runs to its end without being held up: a call that is made begins,
\* and an iteration that can run does run
SpecWrapFair ==
  InitShort /\ [][NextWrap]_vars /\ WF_vars(WrapBegin) /\ WF_vars(WrapIter)

\* ----------------------------------------------------------------------
\* Calls of decode(str, encoding, charset)
\* ----------------------------------------------------------------------
\* bodies: every string over 'A', u-umlaut and a 3-byte character up to the
\* bound, and encoded forms of u-umlaut: quoted-printable of its UTF-8 and
\* of its ISO-8859-1 byte, base64 of both, hexadecimal digits
BodyAlphabet == {65, 252, 26085}

ExampleBodies ==
  { << 61, 67, 51, 61, 66, 67 >>,   \* "=C3=BC"
    << 61, 70, 67 >>,   \* "=FC"
    << 119, 55, 119, 61 >>,   \* "w7w="
    << 47, 65, 61, 61 >>,   \* "/A=="
    << 99, 51, 98, 99 >>   \* "c3bc"
  }

\* encoding names: absent, empty, and names in both letter cases
EncodingNames ==
  { Undefined, << >>,
    << 55, 98, 105, 116 >>,   \* "7bit"
    << 55, 66, 73, 84 >>,   \* "7BIT"
    << 56, 98, 105, 116 >>,   \* "8bit"
    << 56, 66, 105, 116 >>,   \* "8Bit"
    << 98, 105, 110, 97, 114, 121 >>,   \* "binary"
    << 66, 105, 110, 97, 114, 121 >>,   \* "Binary"
    << 120, 45, 117, 117, 101, 110, 99, 111, 100, 101 >>,   \* "x-uuencode"
    << 88, 45, 84, 111, 107, 101, 110 >>,   \* "X-Token"
    << 98, 97, 115, 101, 54, 52 >>,   \* "base64"
    << 66, 65, 83, 69, 54, 52 >>,   \* "BASE64"
    << 113, 117, 111, 116, 101, 100, 45, 112, 114, 105, 110, 116, 97, 98, 108, 101 >>,   \* "quoted-printable"
    << 81, 117, 111, 116, 101, 100, 45, 80, 114, 105, 110, 116, 97, 98, 108, 101 >>,   \* "Quoted-Printable"
    << 104, 101, 120 >>,   \* "hex"
    << 117, 116, 102, 56 >>,   \* "utf8"
    << 85, 84, 70, 45, 56 >>,   \* "UTF-8"
    << 117, 110, 107, 110, 111, 119, 110 >>   \* "unknown"
  }

\* names of the encodings the source returns as they are, in both cases
NotEncodedNames ==
  { << 55, 98, 105, 116 >>,   \* "7bit"
    << 55, 66, 73, 84 >>,   \* "7BIT"
    << 56, 98, 105, 116 >>,   \* "8bit"
    << 56, 66, 105, 116 >>,   \* "8Bit"
    << 98, 105, 110, 97, 114, 121 >>,   \* "binary"
    << 66, 105, 110, 97, 114, 121 >>,   \* "Binary"
    << 120, 45, 117, 117, 101, 110, 99, 111, 100, 101 >>,   \* "x-uuencode"
    << 88, 45, 84, 111, 107, 101, 110 >>   \* "X-Token"
  }

\* charsets: absent, empty, UTF-8 by its names, ISO-8859-1, an unknown one
CharsetNames ==
  { Undefined, << >>,
    << 117, 116, 102, 45, 56 >>,   \* "utf-8"
    << 85, 84, 70, 45, 56 >>,   \* "UTF-8"
    << 117, 116, 102, 56 >>,   \* "utf8"
    << 105, 115, 111, 45, 56, 56, 53, 57, 45, 49 >>,   \* "iso-8859-1"
    << 73, 83, 79, 45, 56, 56, 53, 57, 45, 49 >>,   \* "ISO-8859-1"
    << 120, 45, 117, 110, 107, 110, 111, 119, 110 >>   \* "x-unknown"
  }

InitDecode ==
  /\ QpOff
  /\ callPc = "call"
  /\ callArgs \in { [fn |-> "decode", str |-> b, encoding |-> e, charset |-> c] :
                      b \in SeqsUpTo(BodyAlphabet, MaxBodyLen) \cup ExampleBodies,
                      e \in EncodingNames, c \in CharsetNames }
  /\ callRet = Undefined
  /\ MailIdle

\* decode(str, encoding, charset) is called and returns or throws
CallDecode ==
  /\ callPc = "call"
  /\ callArgs.fn = "decode"
  /\ callRet' = decode(callArgs.str, callArgs.encoding, callArgs.charset)
  /\ callPc' = "returned"
  /\ UNCHANGED << qpVars, callArgs, mailVars >>

NextDecode == CallDecode

SpecDecode == InitDecode /\ [][NextDecode]_vars

\* ----------------------------------------------------------------------
\* Calls of encode(str, encoding, charset, lineLength), and of decode on
\* what encode returned
\* ----------------------------------------------------------------------
\* texts over 'A', u-umlaut, SPACE, '=' and LF
EncodeAlphabet == {65, 252, SP, EQ, LF}

\* encoding names: absent, empty, the two codecs in both letter cases, and
\* two names encode does not recognize
EncoderNames ==
  { Undefined, << >>,
    << 98, 97, 115, 101, 54, 52 >>,   \* "base64"
    << 66, 65, 83, 69, 54, 52 >>,   \* "BASE64"
    << 113, 117, 111, 116, 101, 100, 45, 112, 114, 105, 110, 116, 97, 98, 108, 101 >>,   \* "quoted-printable"
    << 81, 117, 111, 116, 101, 100, 45, 80, 114, 105, 110, 116, 97, 98, 108, 101 >>,   \* "Quoted-Printable"
    << 104, 101, 120 >>,   \* "hex"
    << 55, 98, 105, 116 >>   \* "7bit"
  }

\* line lengths: not given, false, 0 and the lengths up to the bound
LineLengths == {NoLineLength, FalseLineLength} \cup 0..MaxLineLength

InitEncode ==
  /\ QpOff
  /\ callPc = "call"
  /\ callArgs \in { [fn |-> "encode", str |-> t, encoding |-> e, charset |-> c,
                     lineLength |-> n] :
                      t \in SeqsUpTo(EncodeAlphabet, MaxEncodeLen),
                      e \in EncoderNames, c \in CharsetNames, n \in LineLengths }
  /\ callRet = Undefined
  /\ MailIdle

\* encode(str, encoding, charset, lineLength) is called and returns, throws
\* or never returns
CallEncode ==
  /\ callPc = "call"
  /\ callArgs.fn = "encode"
  /\ callRet' = encode(callArgs.str, callArgs.encoding, callArgs.charset,
                       callArgs.lineLength)
  /\ callPc' = "returned"
  /\ UNCHANGED << qpVars, callArgs, mailVars >>

\* what encode returned is handed to decode with the same encoding and
\* charset; text and lineLength keep the arguments of encode
DecodeEncoded ==
  /\ callPc = "returned"
  /\ callArgs.fn = "encode"
  /\ callRet \notin {Throws, Diverges}
  /\ callArgs' = [fn |-> "decode", str |-> callRet, encoding |-> callArgs.encoding,
                  charset |-> callArgs.charset, text |-> callArgs.str,
                  lineLength |-> callArgs.lineLength]
  /\ callPc' = "call"
  /\ callRet' = Undefined
  /\ UNCHANGED << qpVars, mailVars >>

NextEncode == CallEncode \/ DecodeEncoded \/ CallDecode

SpecEncode == InitEncode /\ [][NextEncode]_vars

\* calls of decode on the strings of InitDecode and calls of encode
SpecCodec == (InitDecode \/ InitEncode) /\ [][NextEncode]_vars

\* ----------------------------------------------------------------------
\* Calls of libqp.decode(input) on any string
\* ----------------------------------------------------------------------
\* characters of the strings: '=', the hexadecimal digits '4', 'A' and 'a',
\* the letter 'G', LF, CR and SPACE
QpAlphabet == {EQ, 52, 65, 97, 71, LF, CR, SP}

InitQpDecode ==
  /\ QpOff
  /\ callPc = "call"
  /\ callArgs \in { [fn |-> "libqp.decode", str |-> s] : s \in SeqsUpTo(QpAlphabet, MaxQpLen) }
  /\ callRet = Undefined
  /\ MailIdle

\* libqp.decode(input) is called and returns its Buffer
CallQpDecode ==
  /\ callPc = "call"
  /\ callArgs.fn = "libqp.decode"
  /\ callRet' = qpDecode(callArgs.str)
  /\ callPc' = "returned"
  /\ UNCHANGED << qpVars, callArgs, mailVars >>

SpecQpDecode == InitQpDecode /\ [][CallQpDecode]_vars

\* ----------------------------------------------------------------------
\* Calls of getContent, getContentPart and getHeader on a raw message
\* ----------------------------------------------------------------------
\* a header the part does not carry
NoHeader == << Undefined >>

\* the Headers of a part: h gives each name its list of values or NoHeader
makeHeaders(h) == [ k \in { x \in DOMAIN h : h[x] # NoHeader } |-> h[k] ]

\* Content-Type headers: none, an empty list, plain text without and with a
\* charset (in capitals), HTML
ContentTypeLists ==
  { NoHeader, << >>,
    << << 116, 101, 120, 116, 47, 112, 108, 97, 105, 110 >> >>,
    << << 84, 101, 120, 116, 47, 80, 108, 97, 105, 110, 59, 32, 99, 104, 97, 114, 115, 101, 116, 61, 73, 83, 79, 45, 56, 56, 53, 57, 45, 49 >> >>,
    << << 116, 101, 120, 116, 47, 104, 116, 109, 108, 59, 32, 99, 104, 97, 114, 115, 101, 116, 61, 117, 116, 102, 45, 56 >> >> }

\* bodies with their Content-Transfer-Encoding headers: u-umlaut as it is,
\* its ISO-8859-1 byte in base64, its UTF-8 bytes in quoted-printable
EncodedBodies ==
  { [cte |-> NoHeader, body |-> << 252 >>],
    [cte |-> << << 98, 97, 115, 101, 54, 52 >> >>, body |-> << 47, 65, 61, 61 >>],
    [cte |-> << << 81, 117, 111, 116, 101, 100, 45, 80, 114, 105, 110, 116, 97, 98, 108, 101 >> >>, body |-> << 61, 67, 51, 61, 66, 67 >>] }

ContentParts ==
  { [Headers |-> makeHeaders([ k \in {"Content-Type", "Content-Transfer-Encoding"} |->
                                 IF k = "Content-Type" THEN ct ELSE b.cte ]),
     Body |-> b.body,
     props |-> << >>] : ct \in ContentTypeLists, b \in EncodedBodies }

\* raw messages: without a MIME field, and with up to MaxParts parts
ContentMails ==
  { [Content |-> c, Created |-> << 49, 57, 55, 48 >>, props |-> << >>] : c \in ContentParts }
  \cup
  { [Content |-> c, Created |-> << 49, 57, 55, 48 >>, props |-> << >>, MIME |-> [Parts |-> ps]] :
      c \in ContentParts, ps \in SeqsUpTo(ContentParts, MaxParts) }

ContentCalls ==
  { [fn |-> f, typeRegExp |-> t] :
      f \in {"getContent", "getContentPart"}, t \in {S_text_plain, S_text_html} }
  \cup
  { [fn |-> "getHeader", key |-> k] :
      k \in {"Content-Type", "Content-Transfer-Encoding", "Subject"} }

InitContent ==
  /\ QpOff
  /\ callPc = "call"
  /\ callArgs \in ContentCalls
  /\ callRet = Undefined
  /\ mail \in ContentMails
  /\ calls = << >> /\ nreads = 0 /\ firstRead = << >> /\ lastRead = NoRead

\* getContent(mail, typeRegExp) is called and returns or throws
CallGetContent ==
  /\ callPc = "call"
  /\ callArgs.fn = "getContent"
  /\ callRet' = getContent(mail, callArgs.typeRegExp)
  /\ callPc' = "returned"
  /\ UNCHANGED << qpVars, callArgs, mailVars >>

\* getContentPart(mail, typeRegExp) is called and returns or throws
CallGetContentPart ==
  /\ callPc = "call"
  /\ callArgs.fn = "getContentPart"
  /\ callRet' = getContentPart(mail, callArgs.typeRegExp)
  /\ callPc' = "returned"
  /\ UNCHANGED << qpVars, callArgs, mailVars >>

\* getHeader(mail, key) is called and returns or throws
CallGetHeader ==
  /\ callPc = "call"
  /\ callArgs.fn = "getHeader"
  /\ callRet' = getHeader(mail, callArgs.key)
  /\ callPc' = "returned"
  /\ UNCHANGED << qpVars, callArgs, mailVars >>

NextContent == CallGetContent \/ CallGetContentPart \/ CallGetHeader

SpecContent == InitContent /\ [][NextContent]_vars

\* ----------------------------------------------------------------------
\* Calls of getHeader on header values with encoded words
\* ----------------------------------------------------------------------
\* the encoded word =?charset?encoding?data?=
encodedWord(charset, encoding, data) ==
  [word |-> TRUE, charset |-> charset, encoding |-> encoding, data |-> data,
   raw |-> << EQ, 63 >> \o charset \o << 63, encoding, 63 >> \o data \o << 63, EQ >>]

\* text that is no part of an encoded word
plainText(raw) ==
  [word |-> FALSE, charset |-> << >>, encoding |-> 0, data |-> << >>, raw |-> raw]

\* the pieces of header values: the letter A, a space, the two delimiters on
\* their own, and encoded words of u-umlaut in UTF-8 and base64 (B), in
\* ISO-8859-1 and quoted-printable (q) and base64 (b), of "A_" in UTF-8 and
\* quoted-printable (Q), and of A in a charset iconv-lite does not know
HeaderPieces ==
  { plainText(<< 65 >>), plainText(<< 32 >>), plainText(<< 61, 63 >>), plainText(<< 63, 61 >>),
    encodedWord(<< 117, 116, 102, 45, 56 >>, 66, << 119, 55, 119, 61 >>),
    encodedWord(<< 73, 83, 79, 45, 56, 56, 53, 57, 45, 49 >>, 113, << 61, 70, 67 >>),
    encodedWord(<< 105, 115, 111, 45, 56, 56, 53, 57, 45, 49 >>, 98, << 47, 65, 61, 61 >>),
    encodedWord(<< 117, 116, 102, 45, 56 >>, 81, << 65, 95 >>),
    encodedWord(<< 120, 45, 117, 110, 107, 110, 111, 119, 110 >>, 98, << 81, 81, 61, 61 >>) }

\* the header value made of the pieces ws
RECURSIVE assemble(_)
assemble(ws) == IF ws = << >> THEN << >> ELSE Head(ws).raw \o assemble(Tail(ws))

\* a part that carries the header Subject with the values vs
subjectPart(vs) ==
  [Headers |-> [ k \in {"Subject"} |-> vs ], Body |-> << 65 >>, props |-> << >>]

\* getHeader is called with a message or with a part whose Subject has one
\* value or two and with the names Subject and To; pieces are the pieces of
\* the first value
InitHeader ==
  /\ QpOff
  /\ callPc = "call"
  /\ callRet = Undefined
  /\ \E ws \in SeqsUpTo(HeaderPieces, MaxWords), more \in {<< >>, << << 65 >> >>},
        key \in {"Subject", "To"}, wrapped \in BOOLEAN :
       /\ callArgs = [fn |-> "getHeader", key |-> key, pieces |-> ws]
       /\ mail = IF wrapped
                 THEN [Content |-> subjectPart(<< assemble(ws) >> \o more),
                       Created |-> << 49, 57, 55, 48 >>, props |-> << >>]
                 ELSE subjectPart(<< assemble(ws) >> \o more)
  /\ calls = << >> /\ nreads = 0 /\ firstRead = << >> /\ lastRead = NoRead

SpecHeader == InitHeader /\ [][CallGetHeader]_vars

\* ----------------------------------------------------------------------
\* Reads of the properties that injectProperties defines on a message
\* ----------------------------------------------------------------------
\* Content parts: without any header; with every header in plain text and a
\* valid Date; with encoded words, a To of two values, an empty Cc list and
\* a Date that does not parse; with an encoded word and a Content-Type in a
\* charset iconv-lite does not know, an empty To and an empty Date
MessageContents ==
  { [Headers |-> << >>, Body |-> << 65 >>, props |-> << >>],
    [Headers |-> [ k \in {"Content-Type", "Subject", "From", "To", "Cc", "Bcc",
                          "Reply-To", "Date"} |->
                     CASE k = "Content-Type" -> << << 116, 101, 120, 116, 47, 112, 108, 97, 105, 110 >> >>
                       [] k = "Subject" -> << << 83 >> >>
                       [] k = "From" -> << << 70 >> >>
                       [] k = "To" -> << << 84 >> >>
                       [] k = "Cc" -> << << 67 >> >>
                       [] k = "Bcc" -> << << 66 >> >>
                       [] k = "Reply-To" -> << << 82 >> >>
                       [] k = "Date" -> << << 50, 48, 48, 48 >> >> ],
     Body |-> << 252 >>, props |-> << >>],
    [Headers |-> [ k \in {"Content-Type", "Content-Transfer-Encoding", "Subject",
                          "From", "To", "Cc", "Date"} |->
                     CASE k = "Content-Type" -> << << 116, 101, 120, 116, 47, 104, 116, 109, 108, 59, 32, 99, 104, 97, 114, 115, 101, 116, 61, 117, 116, 102, 45, 56 >> >>
                       [] k = "Content-Transfer-Encoding" -> << << 113, 117, 111, 116, 101, 100, 45, 112, 114, 105, 110, 116, 97, 98, 108, 101 >> >>
                       [] k = "Subject" -> << << 61, 63, 117, 116, 102, 45, 56, 63, 81, 63, 61, 67, 51, 61, 66, 67, 63, 61, 32, 65 >> >>
                       [] k = "From" -> << << 61, 63, 73, 83, 79, 45, 56, 56, 53, 57, 45, 49, 63, 98, 63, 47, 65, 61, 61, 63, 61 >> >>
                       [] k = "To" -> << << 84 >>, << 85 >> >>
                       [] k = "Cc" -> << >>
                       [] k = "Date" -> << << 65 >> >> ],
     Body |-> << 61, 67, 51, 61, 66, 67 >>, props |-> << >>],
    [Headers |-> [ k \in {"Content-Type", "Content-Transfer-Encoding", "Subject",
                          "To", "Date"} |->
                     CASE k = "Content-Type" -> << << 84, 101, 120, 116, 47, 80, 108, 97, 105, 110, 59, 32, 99, 104, 97, 114, 115, 101, 116, 61, 120, 45, 117, 110, 107, 110, 111, 119, 110 >> >>
                       [] k = "Content-Transfer-Encoding" -> << << 98, 97, 115, 101, 54, 52 >> >>
                       [] k = "Subject" -> << << 61, 63, 120, 45, 117, 110, 107, 110, 111, 119, 110, 63, 66, 63, 81, 81, 61, 61, 63, 61 >> >>
                       [] k = "To" -> << << >> >>
                       [] k = "Date" -> << << >> >> ],
     Body |-> << 81, 81, 61, 61 >>, props |-> << >>] }

\* MIME parts: an attachment with a quoted file name, an attachment with a
\* bare one and no Content-Type, and an inline HTML part
AttachmentA ==
  [Headers |-> [ k \in {"Content-Disposition", "Content-Type",
                        "Content-Transfer-Encoding"} |->
                   CASE k = "Content-Disposition" -> << << 97, 116, 116, 97, 99, 104, 109, 101, 110, 116, 59, 32, 102, 105, 108, 101, 110, 97, 109, 101, 61, 34, 97, 46, 103, 105, 102, 34 >> >>
                     [] k = "Content-Type" -> << << 105, 109, 97, 103, 101, 47, 103, 105, 102 >> >>
                     [] k = "Content-Transfer-Encoding" -> << << 98, 97, 115, 101, 54, 52 >> >> ],
   Body |-> << 81, 81, 61, 61 >>, props |-> << >>]

AttachmentB ==
  [Headers |-> [ k \in {"Content-Disposition"} |-> << << 97, 116, 116, 97, 99, 104, 109, 101, 110, 116, 59, 102, 105, 108, 101, 110, 97, 109, 101, 61, 98 >> >> ],
   Body |-> << 66 >>, props |-> << >>]

InlinePart ==
  [Headers |-> [ k \in {"Content-Disposition", "Content-Type"} |->
                   IF k = "Content-Disposition" THEN << << 105, 110, 108, 105, 110, 101 >> >>
                   ELSE << << 116, 101, 120, 116, 47, 104, 116, 109, 108 >> >> ],
   Body |-> << 72 >>, props |-> << >>]

\* an attachment whose Content-Disposition: attachment; filename="c.txt";
\* size=1 has a parameter after the file name
AttachmentC ==
  [Headers |-> [ k \in {"Content-Disposition", "Content-Type"} |->
                   IF k = "Content-Disposition"
                   THEN << << 97, 116, 116, 97, 99, 104, 109, 101, 110, 116, 59, 32, 102, 105, 108, 101, 110, 97, 109, 101, 61, 34, 99, 46, 116, 120, 116, 34, 59, 32, 115, 105, 122, 101, 61, 49 >> >>
                   ELSE << << 116, 101, 120, 116, 47, 112, 108, 97, 105, 110 >> >> ],
   Body |-> << 67 >>, props |-> << >>]

MessageParts ==
  { << >>, << AttachmentA >>, << InlinePart, AttachmentA, AttachmentB >>,
    << AttachmentA, AttachmentC >> }

\* raw messages as the MailHog API returns them
RawMessages ==
  { [Content |-> c, Created |-> d, props |-> << >>] :
      c \in MessageContents, d \in { << 49, 57, 55, 48 >>, << 65 >> } }
  \cup
  { [Content |-> c, Created |-> d, props |-> << >>, MIME |-> [Parts |-> ps]] :
      c \in MessageContents, d \in { << 49, 57, 55, 48 >>, << 65 >> }, ps \in MessageParts }

InitMail ==
  /\ QpOff /\ CallIdle
  /\ mail \in { injectProperties(m) : m \in RawMessages }
  /\ calls = [ f \in Fields |-> 0 ]
  /\ nreads = 0
  /\ firstRead = << >>
  /\ lastRead = NoRead

\* what the read of a field returned is recorded
recordRead(field, val) ==
  /\ nreads' = nreads + 1
  /\ firstRead' = IF field \in DOMAIN firstRead THEN firstRead
                  ELSE [ k \in DOMAIN firstRead \cup {field} |->
                           IF k = field THEN val ELSE firstRead[k] ]
  /\ lastRead' = [f |-> field, part |-> 0, val |-> val,
                  again |-> field \in DOMAIN firstRead]

\* item[field] is read: an accessor property calls its getter function, a
\* data property gives its value, and a name that is no property gives
\* undefined
Read(field) ==
  /\ mail # << >>
  /\ DOMAIN calls = Fields
  /\ nreads < MaxReads
  /\ IF isGetter(mail, field)
     THEN /\ mail' = getterOf(mail, field).mail
          /\ calls' = [calls EXCEPT ![field] = @ + 1]
          /\ recordRead(field, getterOf(mail, field).val)
     ELSE /\ recordRead(field, propValue(mail, field))
          /\ UNCHANGED << mail, calls >>
  /\ UNCHANGED << qpVars, callVars >>

\* item.MIME.Parts[i][field] is read, for a part that getAttachments has
\* made an attachment
ReadPart(i, field) ==
  /\ mail # << >>
  /\ DOMAIN calls = Fields
  /\ nreads < MaxReads
  /\ "MIME" \in DOMAIN mail
  /\ i \in 1..Len(mail.MIME.Parts)
  /\ field \in DOMAIN mail.MIME.Parts[i].props
  /\ LET part == mail.MIME.Parts[i]
         got == IF isGetter(part, field) THEN partGetterOf(part, field)
                ELSE [mail |-> part, val |-> propValue(part, field)]
     IN  /\ mail' = [mail EXCEPT !.MIME.Parts[i] = got.mail]
         /\ lastRead' = [f |-> field, part |-> i, val |-> got.val, again |-> FALSE]
  /\ nreads' = nreads + 1
  /\ UNCHANGED << qpVars, callVars, calls, firstRead >>

NextMail ==
  \/ \E field \in Fields : Read(field)
  \/ \E i \in 1..3, field \in {"name", "type", "encoding"} : ReadPart(i, field)

SpecMail == InitMail /\ [][NextMail]_vars

\* ----------------------------------------------------------------------
\* Reads of the properties that injectProperties of src/index.js defines
\* ----------------------------------------------------------------------
InitIndex ==
  /\ QpOff /\ CallIdle
  /\ mail \in { index_injectProperties(m) : m \in RawMessages }
  /\ calls = [ f \in IndexFields |-> 0 ]
  /\ nreads = 0
  /\ firstRead = << >>
  /\ lastRead = NoRead

\* item[field] is read
index_Read(field) ==
  /\ mail # << >>
  /\ DOMAIN calls = IndexFields
  /\ nreads < MaxReads
  /\ IF isGetter(mail, field)
     THEN /\ mail' = index_getterOf(mail, field).mail
          /\ calls' = [calls EXCEPT ![field] = @ + 1]
          /\ recordRead(field, index_getterOf(mail, field).val)
     ELSE /\ recordRead(field, propValue(mail, field))
          /\ UNCHANGED << mail, calls >>
  /\ UNCHANGED << qpVars, callVars >>

NextIndex == \E field \in IndexFields : index_Read(field)

SpecIndex == InitIndex /\ [][NextIndex]_vars

\* ----------------------------------------------------------------------
\* Properties of the quoted-printable codec
\* ----------------------------------------------------------------------
\* the bytes handed to libqp.encode
argBytes == IF arg.type = "string" THEN BufferFromString(arg.val) ELSE arg.val

softPieces == { k \in 1..Len(pieces) : pieces[k].soft }

\* C1: for every byte sequence B, libqp.decode(libqp.encode(B)) yields
\* exactly B
C1_RoundTrip == pc = "decoded" => out = argBytes

C1_Witness == pc = "decoded" /\ out = << EQ, SP, CR, TAB >>

\* C2: for every byte sequence S and every line length L >= 4,
\* libqp.decode(libqp.wrap(libqp.encode(S), L)) yields exactly S
C2_WrapRoundTrip == pc = "unwrapped" => out = argBytes

C2_Witness ==
  /\ pc = "unwrapped"
  /\ out = << EQ, SP, CR, 195 >>
  /\ Cardinality(softPieces) >= 2

\* value of the escape =XX that starts at position i of s
escapeCode(s, i) == hexVal(s[i + 1]) * 16 + hexVal(s[i + 2])

\* a break after the first c characters of s separates the escape of a
\* UTF-8 lead or continuation byte from the escape of the continuation byte
\* that follows it
splitsUtf8(s, c) ==
  /\ c >= 3 /\ c + 3 <= Len(s)
  /\ escapeAt(s, c - 2) /\ escapeCode(s, c - 2) >= 128
  /\ escapeAt(s, c + 1) /\ escapeCode(s, c + 1) >= 128 /\ escapeCode(s, c + 1) < 192

\* line is made of one to four escapes =XX and nothing else
isShortEscapeRun(line) ==
  /\ Len(line) >= 3 /\ Len(line) <= 12 /\ Len(line) % 3 = 0
  /\ \A i \in 1..Len(line) : i % 3 = 1 => escapeAt(line, i)

RECURSIVE longestLine(_, _, _)
longestLine(s, i, cur) ==
  IF i > Len(s) THEN cur
  ELSE IF s[i] = LF
       THEN Max(IF i > 1 /\ s[i - 1] = CR THEN cur - 1 ELSE cur,
                longestLine(s, i + 1, 0))
       ELSE longestLine(s, i + 1, cur + 1)

\* C4: for every input string and every L >= 4, every line of wrap's output
\* has at most L characters
C4_LineLength == pc = "wrapped" => longestLine(result, 1, 0) <= lineLength

C4_Witness ==
  /\ pc = "wrapped"
  /\ Len(input) > lineLength
  /\ softPieces # {}
  /\ longestLine(result, 1, 0) = lineLength

\* ----------------------------------------------------------------------
\* Properties of decode
\* ----------------------------------------------------------------------
decodeReturned == callPc = "returned" /\ callArgs.fn = "decode"

\* C9: decode(str, encoding, charset) returns str unchanged whenever
\* encoding is 7bit, 8bit, binary or an x- token in any letter case, for
\* every charset
C9_NotEncodedUnchanged ==
  (decodeReturned /\ callArgs.encoding \in NotEncodedNames)
    => callRet = callArgs.str

\* a non-ASCII body declared binary with the ISO-8859-1 charset came back
C9_Witness ==
  /\ decodeReturned
  /\ callArgs.encoding = << 66, 105, 110, 97, 114, 121 >>
  /\ callArgs.charset = << 105, 115, 111, 45, 56, 56, 53, 57, 45, 49 >>
  /\ callArgs.str = << 252, 26085 >>
  /\ callRet = callArgs.str

\* C10: decode(str, encoding, charset) returns str unchanged whenever
\* encoding is empty or absent, for every charset and every body
C10_NoEncodingUnchanged ==
  (decodeReturned /\ falsy(callArgs.encoding)) => callRet = callArgs.str

\* ----------------------------------------------------------------------
\* Properties of the content lookup and of getHeader
\* ----------------------------------------------------------------------
contentReturned ==
  callPc = "returned" /\ callArgs.fn \in {"getContent", "getContentPart"}

\* the Content-Type of candidate part i satisfies the predicate of the call
partMatches(i) ==
  typeRegExpTest(callArgs.typeRegExp,
                 headerToString(candidateParts(mail)[i], "Content-Type"))

matchingParts == { i \in 1..Len(candidateParts(mail)) : partMatches(i) }

\* the decoding of candidate part i with its own Content-Transfer-Encoding
\* and the charset of its own Content-Type, as each function returns it
decodingOfPart(i) ==
  LET part == candidateParts(mail)[i]
      type == headerToString(part, "Content-Type")
      cte == headerToString(part, "Content-Transfer-Encoding")
  IN  IF callArgs.fn = "getContent" THEN decode(part.Body, cte, charsetOf(type))
      ELSE IF decodeSrc(part.Body, cte, charsetOf(type)) = Throws THEN Throws
      ELSE << type, decodeSrc(part.Body, cte, charsetOf(type)) >>

\* C7: getContent and getContentPart return the decoding of the first part,
\* in the order Content, MIME.Parts[0], MIME.Parts[1], ..., whose
\* Content-Type satisfies the predicate, decoded with that part's own
\* Content-Transfer-Encoding and the charset of its own Content-Type
C7_FirstMatchingPart ==
  (contentReturned /\ matchingParts # {})
    => \E i \in matchingParts :
         /\ \A j \in matchingParts : i <= j
         /\ callRet = decodingOfPart(i)

\* Content does not match, both MIME parts do and decode differently, and
\* the decoding of the first of them came back
C7_Witness ==
  /\ contentReturned
  /\ callArgs.fn = "getContent"
  /\ matchingParts = {2, 3}
  /\ decodingOfPart(2) # decodingOfPart(3)
  /\ callRet = << 252 >>
  /\ callRet = decodingOfPart(2)

\* C8: when no candidate part matches, the content lookup returns undefined,
\* neither an exception nor an empty string, and getHeader returns
\* undefined for a header that is missing or has an empty list of values
C8_AbsenceIsUndefined ==
  /\ (contentReturned /\ matchingParts = {}) => callRet = Undefined
  /\ (/\ callPc = "returned" /\ callArgs.fn = "getHeader"
      /\ \/ callArgs.key \notin DOMAIN mail.Content.Headers
         \/ mail.Content.Headers[callArgs.key] = << >>)
       => callRet = Undefined

\* a message without a MIME field whose Content is HTML was asked for its
\* plain text
C8_Witness ==
  /\ contentReturned
  /\ "MIME" \notin DOMAIN mail
  /\ callArgs.typeRegExp = S_text_plain
  /\ headerToString(mail.Content, "Content-Type") = << 116, 101, 120, 116, 47, 104, 116, 109, 108, 59, 32, 99, 104, 97, 114, 115, 101, 116, 61, 117, 116, 102, 45, 56 >>
  /\ callRet = Undefined

\* a header with an empty list of values was looked up
C8_WitnessHeader ==
  /\ callPc = "returned" /\ callArgs.fn = "getHeader"
  /\ callArgs.key = "Content-Type"
  /\ "Content-Type" \in DOMAIN mail.Content.Headers
  /\ mail.Content.Headers["Content-Type"] = << >>
  /\ callRet = Undefined

index_sourceOf(field) ==
  CASE field = "to" -> "To"
    [] field = "cc" -> "Cc"
    [] field = "bcc" -> "Bcc"
    [] field = "replyTo" -> "Reply-To"
    [] field = "date" -> "Date"
    [] field = "deliveryDate" -> "Delivery-Date"

\* C6: in src/index.js every read of to, cc, bcc, replyTo, date and
\* deliveryDate, in whatever order the fields are read, returns the value
\* derived from the field's own source: the To, Cc, Bcc, Reply-To and Date
\* headers and the Created property
C6_OwnSource ==
  (/\ DOMAIN calls = IndexFields
   /\ lastRead.f \in {"to", "cc", "bcc", "replyTo", "date", "deliveryDate"})
    => lastRead.val = index_getHeader(mail, index_sourceOf(lastRead.f))


\* C11: decode(str, encoding, charset) called with an encoding name that is
\* neither base64 nor quoted-printable in any letter case returns str as it
\* is and does not throw
C11_OtherEncodingUnchanged ==
  (/\ decodeReturned
   /\ ~falsy(callArgs.encoding)
   /\ toLowerCase(callArgs.encoding) \notin {S_base64, S_quoted_printable})
    => callRet = callArgs.str


\* ----------------------------------------------------------------------
\* Properties of encode and decode
\* ----------------------------------------------------------------------
\* the charsets that stand for UTF-8: none, the empty one, and its names
Utf8Charsets == { Undefined, << >>, << 117, 116, 102, 45, 56 >>, << 85, 84, 70, 45, 56 >>, << 117, 116, 102, 56 >> }

\* what the call of callArgs returns with another encoding and charset
callResultWith(encoding, charset) ==
  IF callArgs.fn = "decode" THEN decode(callArgs.str, encoding, charset)
  ELSE encode(callArgs.str, encoding, charset, callArgs.lineLength)

\* C12: decode and encode give with an absent charset, with the charsets
\* utf-8, UTF-8 and utf8 the result they give with the empty charset, for
\* every input and encoding; and they give for the names of base64 and
\* quoted-printable in capitals the result of the names in small letters
C12_Utf8Default ==
  (callPc = "returned" /\ callArgs.fn \in {"decode", "encode"}) =>
    /\ callArgs.charset \in Utf8Charsets
         => callRet = callResultWith(callArgs.encoding, << >>)
    /\ callArgs.encoding \in { << 66, 65, 83, 69, 54, 52 >> }
         => callRet = callResultWith(S_base64, callArgs.charset)
    /\ callArgs.encoding \in { << 81, 117, 111, 116, 101, 100, 45, 80, 114, 105, 110, 116, 97, 98, 108, 101 >> }
         => callRet = callResultWith(S_quoted_printable, callArgs.charset)

\* base64 in capitals of the UTF-8 bytes of u-umlaut was decoded with the
\* charset UTF-8 in capitals
C12_Witness ==
  /\ decodeReturned
  /\ callArgs.str = << 119, 55, 119, 61 >>
  /\ callArgs.encoding = << 66, 65, 83, 69, 54, 52 >>
  /\ callArgs.charset = << 85, 84, 70, 45, 56 >>
  /\ callRet = << 252 >>


\* the names of the two encodings, in small letters and in capitals
TransferEncodingNames ==
  { S_base64, << 66, 65, 83, 69, 54, 52 >>, S_quoted_printable, << 81, 117, 111, 116, 101, 100, 45, 80, 114, 105, 110, 116, 97, 98, 108, 101 >> }

\* decode has returned from the result of encode(text, encoding, charset,
\* lineLength), called with the same encoding and charset
roundTripReturned == decodeReturned /\ "text" \in DOMAIN callArgs

\* C13: with the encoding quoted-printable or base64, a charset that is
\* absent or UTF-8 and a line length that is absent, 0, false or at least 4,
\* decoding the result of encode with the same encoding and charset gives the
\* string that was encoded
C13_RoundTrip ==
  (/\ roundTripReturned
   /\ callArgs.encoding \in TransferEncodingNames
   /\ callArgs.charset \in Utf8Charsets
   /\ \/ callArgs.lineLength \in {NoLineLength, FalseLineLength, 0}
      \/ callArgs.lineLength >= 4)
    => callRet = callArgs.text

\* 'A', u-umlaut and a space went through quoted-printable with lines of 4
\* characters, which splits the encoded string, and came back
C13_Witness ==
  /\ roundTripReturned
  /\ callArgs.text = << 65, 252, SP >>
  /\ callArgs.encoding = S_quoted_printable
  /\ callArgs.charset = << 117, 116, 102, 56 >>
  /\ callArgs.lineLength = 4
  /\ \E i \in 1..Len(callArgs.str) : occursAt(callArgs.str, i, SoftBreak)
  /\ callRet = callArgs.text


\* encode has returned or thrown
encodeReturned == callPc = "returned" /\ callArgs.fn = "encode"

\* s without its CR LF pairs
RECURSIVE withoutCRLF(_)
withoutCRLF(s) ==
  IF s = << >> THEN s
  ELSE IF occursAt(s, 1, << CR, LF >>) THEN withoutCRLF(SubSeq(s, 3, Len(s)))
  ELSE << s[1] >> \o withoutCRLF(Tail(s))

\* C14: encode(str, 'base64', charset, L) with L > 0 returns lines of L
\* characters each followed by CR LF and a last line of 1 to L characters
\* that no CR LF follows, and without the CR LF pairs it is what encode
\* returns with the line length 0; of the empty base64 text it returns
\* the empty string
C14_Base64Lines ==
  (/\ encodeReturned
   /\ callArgs.encoding \in { S_base64, << 66, 65, 83, 69, 54, 52 >> }
   /\ callArgs.lineLength > 0
   /\ callRet # Throws)
    => LET L == callArgs.lineLength
           unwrapped == encode(callArgs.str, callArgs.encoding, callArgs.charset, 0)
       IN  /\ withoutCRLF(callRet) = unwrapped
           /\ \A i \in 1..Len(callRet) :
                /\ i % (L + 2) = L + 1 => callRet[i] = CR
                /\ i % (L + 2) = 0 => callRet[i] = LF
                /\ i % (L + 2) \in 1..L => callRet[i] \notin {CR, LF}
           /\ unwrapped # << >> => Len(callRet) % (L + 2) \in 1..L
           /\ unwrapped = << >> => callRet = << >>

\* the base64 text of two u-umlauts, 8 characters, was cut into lines of 3
C14_Witness ==
  /\ encodeReturned
  /\ callArgs.str = << 252, 252 >>
  /\ callArgs.encoding = S_base64
  /\ callArgs.lineLength = 3
  /\ callRet = << 119, 55, 122 >> \o << CR, LF >> \o << 68, 118, 65 >> \o << CR, LF >> \o << 61, 61 >>


\* the bytes encode makes of str: its UTF-8 bytes when the charset is absent
\* or a name of UTF-8, its ISO-8859-1 bytes for the names of that charset
bytesOf(str, charset) ==
  IF charset \in Utf8Charsets THEN BufferFromString(str)
  ELSE [ i \in 1..Len(str) |-> IF str[i] < 256 THEN str[i] ELSE 63 ]

\* C15: encode with the line length 0 or false returns, when it returns, the
\* quoted-printable or base64 encoding of the bytes of str as libqp.encode
\* and Buffer.toString make it, with no line break added, and for every
\* other encoding name it returns str itself
C15_NoWrapping ==
  (/\ encodeReturned
   /\ callArgs.lineLength \in {0, FalseLineLength}
   /\ callRet # Throws)
    => callRet =
         IF callArgs.encoding \in { S_quoted_printable, << 81, 117, 111, 116, 101, 100, 45, 80, 114, 105, 110, 116, 97, 98, 108, 101 >> }
         THEN qpEncode(bytesOf(callArgs.str, callArgs.charset))
         ELSE IF callArgs.encoding \in { S_base64, << 66, 65, 83, 69, 54, 52 >> }
         THEN base64Encode(bytesOf(callArgs.str, callArgs.charset))
         ELSE callArgs.str

\* a text that starts with a space was encoded with the line length false and
\* an encoding name that is not known
C15_Witness ==
  /\ encodeReturned
  /\ callArgs.str = << SP, 65 >>
  /\ callArgs.encoding = S_hex
  /\ callArgs.lineLength = FalseLineLength
  /\ callRet = << SP, 65 >>

\* u-umlaut was encoded in quoted-printable with the line length 0
C15_WitnessQp ==
  /\ encodeReturned
  /\ callArgs.str = << 252 >>
  /\ callArgs.encoding = S_quoted_printable
  /\ callArgs.lineLength = 0
  /\ callRet = << 61, 67, 51, 61, 66, 67 >>


\* ----------------------------------------------------------------------
\* Properties of getHeader on encoded words
\* ----------------------------------------------------------------------
\* getHeader has returned or thrown for a header whose first value was
\* assembled from callArgs.pieces
headerReturned ==
  callPc = "returned" /\ callArgs.fn = "getHeader" /\ "pieces" \in DOMAIN callArgs

\* what a piece stands for: an encoded word for its data decoded from base64
\* (B, b) or quoted-printable (Q, q) into its charset, text for itself
decodingOfPiece(w) ==
  IF ~w.word THEN w.raw
  ELSE decode(w.data,
              IF w.encoding \in {66, 98} THEN S_base64 ELSE S_quoted_printable,
              w.charset)

RECURSIVE decodingOfPieces(_)
decodingOfPieces(ws) ==
  IF ws = << >> THEN << >>
  ELSE decodingOfPiece(Head(ws)) \o decodingOfPieces(Tail(ws))

\* C16: getHeader returns the first value of the header with each encoded
\* word replaced by the decoding of its own data under its own charset and
\* encoding letter, and with the text between the encoded words as it is
\* and in its place; it throws when the decoding of one of the words throws
C16_EncodedWordsInPlace ==
  (headerReturned /\ callArgs.key = "Subject") =>
    IF \E i \in 1..Len(callArgs.pieces) : decodingOfPiece(callArgs.pieces[i]) = Throws
    THEN callRet = Throws
    ELSE callRet = decodingOfPieces(callArgs.pieces)

\* a word in UTF-8 and base64, a space and a word in ISO-8859-1 and
\* quoted-printable were each replaced by u-umlaut where they stood
C16_Witness ==
  /\ headerReturned
  /\ callArgs.key = "Subject"
  /\ Len(callArgs.pieces) = 3
  /\ callArgs.pieces[1].raw = << 61, 63, 117, 116, 102, 45, 56, 63, 66, 63, 119, 55, 119, 61, 63, 61 >>
  /\ callArgs.pieces[2].raw = << 32 >>
  /\ callArgs.pieces[3].raw = << 61, 63, 73, 83, 79, 45, 56, 56, 53, 57, 45, 49, 63, 113, 63, 61, 70, 67, 63, 61 >>
  /\ callRet = << 252, SP, 252 >>


\* ----------------------------------------------------------------------
\* Properties of the attachments of a message
\* ----------------------------------------------------------------------
\* the end of the run of characters other than '"' that starts at i
RECURSIVE quoteFreeEnd(_, _)
quoteFreeEnd(s, i) ==
  IF i <= Len(s) /\ s[i] # 34 THEN quoteFreeEnd(s, i + 1) ELSE i - 1

\* the group of attachment;\s*filename="?([^"]+)"? matched at position p of
\* s, Undefined when it does not match there
filenameAt(s, p) ==
  LET i == skipSpace(s, p + Len(S_attachment))
      j == i + Len(S_filename_eq)
      from == IF j <= Len(s) /\ s[j] = 34 THEN j + 1 ELSE j
  IN  IF occursAt(s, p, S_attachment) /\ occursAt(s, i, S_filename_eq)
         /\ quoteFreeEnd(s, from) >= from
      THEN SubSeq(s, from, quoteFreeEnd(s, from))
      ELSE Undefined

\* the group of the first match of the pattern in s
RECURSIVE filenameFrom(_, _)
filenameFrom(s, p) ==
  IF p > Len(s) THEN Undefined
  ELSE IF filenameAt(s, p) # Undefined THEN filenameAt(s, p)
  ELSE filenameFrom(s, p + 1)

\* the file name of a part whose Content-Disposition matches the pattern
filenameOf(part) == filenameFrom(headerToString(part, "Content-Disposition"), 1)

\* the first value of a header of a part
headerValue(part, key) ==
  IF key \in DOMAIN part.Headers /\ part.Headers[key] # << >>
  THEN part.Headers[key][1] ELSE Undefined

\* the indices of the parts whose Content-Disposition matches the pattern
RECURSIVE matchingIndices(_, _)
matchingIndices(parts, i) ==
  IF i > Len(parts) THEN << >>
  ELSE (IF filenameOf(parts[i]) # Undefined THEN << i >> ELSE << >>)
       \o matchingIndices(parts, i + 1)

\* the read of attachments that ran the getter function has returned
attachmentsRead ==
  /\ DOMAIN calls = Fields
  /\ lastRead # NoRead
  /\ lastRead.f = "attachments" /\ lastRead.part = 0 /\ ~lastRead.again
  /\ lastRead.val # Throws

\* C17: the attachments of a message are the parts of MIME.Parts, in their
\* order, whose Content-Disposition matches attachment;\s*filename="?([^"]+)"?,
\* each with the matched file name as name, its Content-Type as type, its
\* Content-Transfer-Encoding as encoding and its Body; a message without
\* MIME parts has none
C17_AttachmentsAreMatchingParts ==
  attachmentsRead =>
    IF "MIME" \notin DOMAIN mail THEN lastRead.val = << -4 >>
    ELSE /\ lastRead.val = << -4 >> \o matchingIndices(mail.MIME.Parts, 1)
         /\ \A k \in 2..Len(lastRead.val) :
              LET part == mail.MIME.Parts[lastRead.val[k]]
              IN  /\ propValue(part, "name") = filenameOf(part)
                  /\ partGetterOf(part, "type").val = headerValue(part, "Content-Type")
                  /\ partGetterOf(part, "encoding").val
                       = headerValue(part, "Content-Transfer-Encoding")


\* ----------------------------------------------------------------------
\* Properties of date and deliveryDate
\* ----------------------------------------------------------------------
\* the values of the Date header of a raw or injected message
dateHeader(m) ==
  IF "Date" \in DOMAIN m.Content.Headers THEN m.Content.Headers["Date"] ELSE NoHeader

\* a property of the message itself has been read
messageRead == DOMAIN calls = Fields /\ lastRead # NoRead /\ lastRead.part = 0

C18_WitnessDate ==
  /\ messageRead
  /\ lastRead.f = "date"
  /\ mail.Created = << 49, 57, 55, 48 >>
  /\ dateHeader(mail) = << << 50, 48, 48, 48 >> >>
  /\ lastRead.val = << -3, 10957 >>


\* ----------------------------------------------------------------------
\* Termination of libqp.wrap
\* ----------------------------------------------------------------------
\* C19: every call of libqp.wrap returns, whatever the input string and the
\* positive line length
C19_WrapTerminates == (pc = "raw") ~> (pc = "wrapped")


\* ----------------------------------------------------------------------
\* libqp.decode of strings without escapes
\* ----------------------------------------------------------------------
\* libqp.decode has returned out for the string result, which holds no '='
decodedWithoutEscapes ==
  pc = "unwrapped" /\ \A i \in 1..Len(result) : result[i] # EQ

\* from position i on, s has only spaces and tabs up to the end of its line
RECURSIVE endsLine(_, _)
endsLine(s, i) ==
  \/ i > Len(s)
  \/ isLineTerminator(s[i])
  \/ (s[i] \in {TAB, SP} /\ endsLine(s, i + 1))

\* s from position i on without the spaces and tabs that end a line
RECURSIVE withoutLineEndBlanks(_, _)
withoutLineEndBlanks(s, i) ==
  IF i > Len(s) THEN << >>
  ELSE (IF s[i] \in {TAB, SP} /\ endsLine(s, i + 1) THEN << >> ELSE << s[i] >>)
       \o withoutLineEndBlanks(s, i + 1)

\* C20: libqp.decode of a string without '=' returns the characters of the
\* string as bytes, whatever white space and line breaks the string has
C20_NoEscapesUnchanged == decodedWithoutEscapes => out = result

\* C20 as the code has it: libqp.decode of a string without '=' returns the
\* characters of the string as bytes except the spaces and tabs that stand
\* at the end of a line or of the string, which it removes; line breaks and
\* all other white space stay
C20_NoEscapesKeepsAllButLineEndBlanks ==
  decodedWithoutEscapes => out = withoutLineEndBlanks(result, 1)

\* "A", a space, LF and "A" were decoded: the space before the line break is
\* gone
C20_Witness ==
  /\ decodedWithoutEscapes
  /\ result = << 65, SP, LF, 65 >>
  /\ out = << 65, LF, 65 >>


\* ----------------------------------------------------------------------
\* Properties of libqp.encode and libqp.decode on every kind of byte
\* ----------------------------------------------------------------------
\* a digit 0-9 or A-F
isUpperHex(c) == (c >= 48 /\ c <= 57) \/ (c >= 65 /\ c <= 70)

\* byte i of b is TAB, LF, CR or lies in 0x20-0x3C or 0x3E-0x7E, and is no
\* SPACE or TAB that ends b or stands before CR or LF
staysLiteral(b, i) ==
  /\ b[i] \in {9, 10, 13} \cup (32..60) \cup (62..126)
  /\ b[i] \in {9, 32} => (i < Len(b) /\ b[i + 1] \notin {10, 13})

\* the digit of the value n < 16
upperHexDigit(n) == << 48, 49, 50, 51, 52, 53, 54, 55, 56, 57, 65, 66, 67, 68, 69, 70 >>[n + 1]

\* the encoding of b from byte i on, each byte literal or '=' and two digits
RECURSIVE literalOrEscape(_, _)
literalOrEscape(b, i) ==
  IF i > Len(b) THEN << >>
  ELSE (IF staysLiteral(b, i) THEN << b[i] >>
        ELSE << EQ, upperHexDigit(b[i] \div 16), upperHexDigit(b[i] % 16) >>)
       \o literalOrEscape(b, i + 1)

\* C21: libqp.encode emits a byte as it is if and only if it is TAB, LF, CR
\* or in 0x20-0x3C or 0x3E-0x7E and is no SPACE or TAB at the end of the
\* input or before CR or LF, and emits every other byte as '=' and two
\* uppercase hexadecimal digits; so no SPACE or TAB of the output ends a
\* line and every '=' of the output starts an escape
C21_LiteralOrEscape ==
  pc = "encoded" =>
    /\ input = literalOrEscape(argBytes, 1)
    /\ \A i \in 1..Len(input) :
         /\ input[i] \in {SP, TAB} => (i < Len(input) /\ input[i + 1] \notin {CR, LF})
         /\ input[i] = EQ => /\ i + 2 <= Len(input)
                             /\ isUpperHex(input[i + 1]) /\ isUpperHex(input[i + 2])

\* '<' stayed, '=' and a SPACE at the end were escaped
C21_Witness ==
  /\ pc = "encoded"
  /\ arg.val = << 60, EQ, SP >>
  /\ input = << 60, EQ, 51, 68, EQ, 50, 48 >>


\* libqp.decode has returned
qpDecodeReturned == callPc = "returned" /\ callArgs.fn = "libqp.decode"

\* the value of a hexadecimal digit of either case, -1 for another character
digitValue(c) ==
  IF c \in 48..57 THEN c - 48
  ELSE IF c \in 65..70 THEN c - 55
  ELSE IF c \in 97..102 THEN c - 87
  ELSE -1

\* an '=' at position i of s with two hexadecimal digits after it
validEscapeAt(s, i) ==
  /\ s[i] = EQ /\ i + 2 <= Len(s)
  /\ digitValue(s[i + 1]) >= 0 /\ digitValue(s[i + 2]) >= 0

\* the bytes of s from position i on: a valid escape gives its byte and
\* takes three characters, every other character, '=' too, gives itself
RECURSIVE scanned(_, _)
scanned(s, i) ==
  IF i > Len(s) THEN << >>
  ELSE IF validEscapeAt(s, i)
  THEN << 16 * digitValue(s[i + 1]) + digitValue(s[i + 2]) >> \o scanned(s, i + 3)
  ELSE << s[i] >> \o scanned(s, i + 1)

\* C22: libqp.decode returns a Buffer for every string: in the input
\* cleaned of line-end blanks and soft line breaks an '=' with two
\* hexadecimal digits of either case gives that byte and takes three
\* characters, every other '=' gives the byte 0x3D, and the Buffer is filled
\* exactly, its length being the length of the cleaned input less twice the
\* number of valid escapes
C22_DecodeNeverFails ==
  qpDecodeReturned =>
    LET str == qpClean(callArgs.str)
    IN  /\ callRet = scanned(str, 1)
        /\ Len(callRet)
             = Len(str) - 2 * Cardinality({ i \in 1..Len(str) : validEscapeAt(str, i) })

\* an '=' before another '=' stayed, and an escape with a digit in small
\* letters gave its byte
C22_Witness ==
  /\ qpDecodeReturned
  /\ callArgs.str = << EQ, EQ, 52, 97 >>
  /\ callRet = << EQ, 74 >>


\* ----------------------------------------------------------------------
\* Properties of the places where libqp.wrap breaks a line
\* ----------------------------------------------------------------------
\* the first c characters of s end in the CR of a CR LF pair
splitsCRLF(s, c) == c >= 1 /\ c + 1 <= Len(s) /\ s[c] = CR /\ s[c + 1] = LF

\* C23: for every input string and every L >= 4, no soft line break of
\* libqp.wrap stands between the CR and the LF of a CR LF pair of the input
C23_NeverSplitsCRLF ==
  \A k \in softPieces : ~ splitsCRLF(input, pieces[k].to)

\* the CR of a pair was the last character of the first window of 4
\* characters and the line was cut before it
C23_Witness ==
  /\ pc = "wrapped"
  /\ lineLength = 4
  /\ input = << 65, 65, 65, CR, LF, 65 >>
  /\ pieces[1] = [from |-> 0, to |-> 3, line |-> << 65, 65, 65 >>, soft |-> TRUE]


\* every '=' of s is followed by two hexadecimal digits
wellFormed(s) == \A i \in 1..Len(s) : s[i] = EQ => validEscapeAt(s, i)

\* a break after the first c characters of s stands after the '=' or after
\* the first digit of an escape
splitsEscape(s, c) ==
  \/ c >= 1 /\ validEscapeAt(s, c)
  \/ c >= 2 /\ validEscapeAt(s, c - 1)

\* C24: for every input in which each '=' is followed by two hexadecimal
\* digits and every L >= 4, each soft line break of libqp.wrap follows a
\* complete escape or a literal character of the input and none stands
\* inside an escape
C24_NeverSplitsEscape ==
  wellFormed(input) =>
    \A k \in softPieces : pieces[k].to >= 1 /\ ~ splitsEscape(input, pieces[k].to)

\* the window of 4 characters ended after the first digit of an escape and
\* the whole escape went to the next line
C24_Witness ==
  /\ pc = "wrapped"
  /\ lineLength = 4
  /\ input = << 65, 65, EQ, 51, 68, 65 >>
  /\ pieces[1] = [from |-> 0, to |-> 2, line |-> << 65, 65 >>, soft |-> TRUE]


\* the length of the longest line of s from position i on, cur characters
\* of the current line read so far; lines end at CR LF
RECURSIVE longestLineCRLF(_, _, _)
longestLineCRLF(s, i, cur) ==
  IF i > Len(s) THEN cur
  ELSE IF splitsCRLF(s, i) THEN Max(cur, longestLineCRLF(s, i + 2, 0))
  ELSE longestLineCRLF(s, i + 1, cur + 1)

\* C25: libqp.wrap returns its input as it is when no line of the input,
\* lines ending at CR LF, has more than L characters
C25_ShortLinesUnchanged ==
  (pc = "wrapped" /\ longestLineCRLF(input, 1, 0) <= lineLength) => result = input


\* SPACE, TAB or one of . , ! ?
cutsLine(c) == c \in {32, 9, 46, 44, 33, 63}

\* the window of L characters that iteration k of the loop read
windowOf(k) == substr(input, pieces[k].from, lineLength)

\* the positions in the last floor(L / 3) characters of window w that hold
\* a character a line is cut at
cutPlaces(w) ==
  { j \in (Len(w) - (lineLength \div 3) + 1)..Len(w) : j >= 1 /\ cutsLine(w[j]) }

\* the last of these positions
lastCutPlace(w) == CHOOSE j \in cutPlaces(w) : \A i \in cutPlaces(w) : i <= j

rawOf(m) ==
  { r \in RawMessages :
      /\ r.Content = m.Content
      /\ r.Created = m.Created
      /\ ("MIME" \in DOMAIN r) = ("MIME" \in DOMAIN m)
      /\ "MIME" \in DOMAIN m => r.MIME = m.MIME }

\* C27: whatever derived fields of a message have been read, attachments
\* included, its Content, its Created property and the parts of its
\* MIME.Parts are those of the raw message: no part has gained, lost or
\* changed a property
C27_ReadsLeaveRawMessage ==
  DOMAIN calls = Fields => rawOf(mail) # {}

\* attachments was read of a message whose only part is an attachment, and
\* the part has the properties name, type and encoding
C27_PartGainedProperties ==
  /\ DOMAIN calls = Fields
  /\ lastRead.f = "attachments" /\ lastRead.part = 0
  /\ "MIME" \in DOMAIN mail
  /\ Len(mail.MIME.Parts) = 1
  /\ DOMAIN mail.MIME.Parts[1].props = {"name", "type", "encoding"}



\* ----------------------------------------------------------------------
\* What libqp.wrap adds to its input
\* ----------------------------------------------------------------------
\* res from position i on (counted from 1) without the three characters
\* that follow the piece of every iteration from the k-th on that added a
\* soft line break: each iteration accounts for as many characters of res as
\* it advanced the read position by
RECURSIVE withoutBreaks(_, _, _)
withoutBreaks(res, i, k) ==
  IF k > Len(pieces) THEN SubSeq(res, i, Len(res))
  ELSE LET n == pieces[k].to - pieces[k].from
       IN  SubSeq(res, i, i + n - 1)
             \o withoutBreaks(res, i + n + (IF pieces[k].soft THEN 3 ELSE 0), k + 1)

\* the position in the result, counted from 1, at which the piece of the
\* k-th iteration ends
RECURSIVE endInResult(_)
endInResult(k) ==
  IF k = 0 THEN 0
  ELSE endInResult(k - 1)
       + (IF k > 1 /\ pieces[k - 1].soft THEN 3 ELSE 0)
       + (pieces[k].to - pieces[k].from)

\* C28: for every input string and every line length from 4 on, what wrap
\* returns is the input with '=' CR LF put in after the pieces of some
\* iterations and nothing else: the characters after each such piece are
\* '=' CR LF, and without them the result is the input, character for
\* character
C28_OnlySoftBreaksAdded ==
  pc = "wrapped" =>
    /\ Len(result) = Len(input) + 3 * Cardinality(softPieces)
    /\ \A k \in softPieces :
         SubSeq(result, endInResult(k) + 1, endInResult(k) + 3) = SoftBreak
    /\ withoutBreaks(result, 1, 1) = input

\* wrap of six letters at line length 4 has put one soft line break in
C28_Witness ==
  /\ pc = "wrapped"
  /\ lineLength = 4
  /\ input = << 65, 65, 65, 65, 65, 65 >>
  /\ result = << 65, 65, 65, EQ, CR, LF, 65, 65, 65 >>
  /\ softPieces = {1}



\* ----------------------------------------------------------------------
\* UTF-8 sequences at line lengths from 24 on
\* ----------------------------------------------------------------------
\* the escape of a lead byte starts at position i of s
leadEscapeAt(s, i) == escapeAt(s, i) /\ escapeCode(s, i) >= 192

\* the iteration that emitted the k-th piece backed off over the escapes of
\* a whole multi-byte sequence: the piece ends right before the escape of a
\* lead byte and is shorter than its window by three characters or more
backedOff(k) ==
  /\ pieces[k].soft
  /\ leadEscapeAt(input, pieces[k].to + 1)
  /\ pieces[k].to - pieces[k].from <= lineLength - 3

\* C29: for every line length from 24 on, wrap of the encoding of valid
\* UTF-8 text puts no soft line break between the escape of a lead byte and
\* the escapes of its continuation bytes: a line that the back off has made
\* a run of one to four escapes ends before the escape of a lead byte, the
\* whole sequence having been taken off it
C29_LongLinesKeepUtf8Whole ==
  (pc \in {"loop", "wrapped"} /\ lineLength >= 24) =>
    \A k \in softPieces :
      /\ ~ splitsUtf8(input, pieces[k].to)
      /\ (isShortEscapeRun(pieces[k].line) /\ escapeAt(input, pieces[k].to + 1)
             /\ escapeCode(input, pieces[k].to + 1) >= 128)
           => backedOff(k)

\* at line length 24 the window of the first iteration ended inside the
\* escape of u-umlaut, after 'A', a three-byte and a four-byte character;
\* the back off took the four escapes of the four-byte character off the
\* line
C29_Witness ==
  /\ pc = "wrapped"
  /\ lineLength = 24
  /\ arg.val = << 65, 230, 151, 165, 240, 159, 152, 128, 195, 188 >>
  /\ backedOff(1)
  /\ pieces[1].to = 10



\* ----------------------------------------------------------------------
\* Progress of the loop of libqp.wrap
\* ----------------------------------------------------------------------
\* C30: for every input string and every line length from 4 on, every
\* iteration of the loop of wrap emits a piece of the input that is not
\* empty and advances the read position by one character or more, so that
\* the loop has run at most as many iterations as the input has characters
C30_EveryIterationAdvances ==
  (pc \in {"loop", "wrapped"} /\ lineLength >= 4) =>
    /\ \A k \in 1..Len(pieces) :
         pieces[k].line # << >> /\ pieces[k].to > pieces[k].from
    /\ iter <= Len(input)

====
